---- MODULE Spec2Model ----
(***************************************************************************)
(* State-machine model of the microphone pipeline of                       *)
(* src/src/hook/useMicStreamer.ts: capture session lifecycle, energy VAD   *)
(* segmenter, quality gate, transcription with retry, translation worker   *)
(* pool and the consumer callbacks.                                        *)
(*                                                                         *)
(* Granularity: one step of the model is one browser task (an audio frame  *)
(* callback, a React effect run, a fetch settling, a timer firing, a body  *)
(* read settling, getUserMedia settling) together with the promise         *)
(* continuations it triggers, which run to their next await before any     *)
(* other task starts.                                                      *)
(*                                                                         *)
(* Units: durations in ms (integers), energies in 1/1000 of full scale.    *)
(***************************************************************************)
EXTENDS Integers, Sequences, FiniteSets, TLC

\* ------------------------------------------------------------- bounds
\* the general specification Spec
MaxSessions == 1
MaxSegs == 2
MaxFrames == 4
\* the specification SpecDispatch: one segment, every worker-pool shape
DispatchSessions == 1
DispatchSegs == 1
DispatchFrames == 2
\* the specification SpecRetry: fetchWithRetry with up to MaxTries tries
MaxTries == 3
\* the specification SpecSegmenter: long frame sequences, no response
\* arrives
SegmenterSessions == 1
SegmenterSegs == 2
SegmenterFrames == 10
\* the specification SpecSegmenterLive: the capture side under fairness
LiveSessions == 1
LiveSegs == 2
LiveFrames == 6
\* the specification SpecNetworkLive: two segments under a network that
\* answers
NetSessions == 1
NetSegs == 2
NetFrames == 4
\* the specification SpecRejectLive: a segment of three frames in flight
\* and a segment of two frames after it
RejectSessions == 1
RejectSegs == 1
RejectFrames == 5
\* the specification SpecLifecycle: reconfiguration, two sessions
LifecycleSessions == 2
LifecycleSegs == 1
LifecycleFrames == 3
\* the specification SpecAudio: the audio utilities called alone, on
\* buffers of up to MaxSamples float samples (downsampleTo16k) and of up to
\* MaxPcm samples (floatTo16BitPCM, encodeWav)
MaxSamples == 7
MaxPcm == 2
\* and on the rising buffers 0, 1, 2, ... of up to MaxRamp samples
MaxRamp == 29
\* the specification SpecOrder: the server's order sanitization on drafts
\* of up to MaxDraft items
MaxDraft == 2

\* -------------------------------------------------- program constants
OutRate == 16000
ProcBufferSize == 2048
SttTries == 2
TrTries == 2
GateVoicedPct == 18
GateShortMs == 1200
\* floatTo16BitPCM: 0x8000 and 0x7fff
NegScale == 32768
PosScale == 32767
\* encodeWav: the size of the header
WavHeader == 44
\* the order policy of the server's /api/llm handler
MAX_PER_ITEM == 3
MAX_TOTAL_QTY == 5

\* ------------------------------------------------------ input domains
\* An optional value (undefined in the source) is the empty set, a given
\* value v is {v}.
Undefined == {}
Given(v) == {v}

\* outputs and translationParallelWorkers. translationParallelWorkers is a
\* number, not only an integer: it is written in halves, so the choices
\* are undefined, 0, 1, 1.5, 2 and 3.
OutputChoices ==
  { <<>>, <<"en">>, <<"en", "ja">>, <<"ja", "en">>, <<"en", "en">>, <<"", "en">>,
    <<"en", "", "ja">>, <<"ja", "ko", "en">> }
WorkerChoices == { Undefined, Given(0), Given(2), Given(3), Given(4), Given(6) }
DispatchConfigs ==
  { [outputs |-> o, translationParallelWorkers |-> n] :
      o \in OutputChoices, n \in WorkerChoices }
Configs ==
  { [outputs |-> <<>>, translationParallelWorkers |-> Undefined],
    [outputs |-> <<"en">>, translationParallelWorkers |-> Undefined] }
SampleRates == { 16000 }
\* rms energies of a frame: silence, exactly vadGateLow, between the
\* gates, exactly vadGateHigh
Energies == { 0, 4, 7, 10 }
\* caller options of the segmenter (Opts, all optional in the source): the
\* gates and the pad as in the source, the durations a few frames long.
\* With 128 ms frames the first admits every segment, the second discards
\* the two-frame ones.
ShortSpeech ==
  [vadGateHigh |-> 10, vadGateLow |-> 4, padMs |-> 70,
   minSpeechMs |-> 256, maxSegmentMs |-> 384]
LongSpeech ==
  [vadGateHigh |-> 10, vadGateLow |-> 4, padMs |-> 70,
   minSpeechMs |-> 384, maxSegmentMs |-> 384]
SegmenterChoices == { ShortSpeech, LongSpeech }
\* maxSegmentMs is not a whole number of frames, and padMs is longer than
\* a frame
Overshoot ==
  [vadGateHigh |-> 10, vadGateLow |-> 4, padMs |-> 300,
   minSpeechMs |-> 256, maxSegmentMs |-> 300]
\* a long pad: one voiced frame and five silent ones make a segment of
\* 768 ms with a voiced fraction of 1/6
NoisyShort ==
  [vadGateHigh |-> 10, vadGateLow |-> 4, padMs |-> 640,
   minSpeechMs |-> 128, maxSegmentMs |-> 2000]
\* a longer pad: one voiced frame and nine silent ones make a segment of
\* 1280 ms with a voiced fraction of 1/10
NoisyLong ==
  [vadGateHigh |-> 10, vadGateLow |-> 4, padMs |-> 1152,
   minSpeechMs |-> 128, maxSegmentMs |-> 2000]
\* no pad at all: the first silent frame ends the segment
ZeroPad ==
  [vadGateHigh |-> 10, vadGateLow |-> 4, padMs |-> 0,
   minSpeechMs |-> 128, maxSegmentMs |-> 384]
\* maxSegmentMs is shorter than a frame
TinyMax ==
  [vadGateHigh |-> 10, vadGateLow |-> 4, padMs |-> 70,
   minSpeechMs |-> 128, maxSegmentMs |-> 100]
GateChoices == { ShortSpeech, Overshoot, NoisyShort, NoisyLong, ZeroPad, TinyMax }

\* A float sample is written as a whole number of 1/FloatOne: FloatOne is
\* 1.0. The buffers given to downsampleTo16k hold -1.0, 0.0 and 1.0, so the
\* mean of 1, 2, 3 or 4 of them is a whole number of units, and so is
\* the mean of up to 3 consecutive whole values. The values given
\* to floatTo16BitPCM are multiples of 1/8 (floats, exactly): -2, -1.125,
\* -1, -0.5, -0.125, 0, 0.125, 0.5, 1, 1.125, 2.
FloatOne == 24
Levels == { -FloatOne, 0, FloatOne }
PcmLevels == { -48, -27, -24, -12, -3, 0, 3, 12, 24, 27, 48 }
\* 16-bit samples given to encodeWav
Int16Levels == { -32768, -2, -1, 0, 1, 255, 256, 32767 }
\* hardware sample rates: below, at and above 16000, multiples of it or not
InRates == { 4480, 8000, 16000, 17920, 32000, 44100, 48000 }
SeqsUpTo(S, n) == UNION { [1..m -> S] : m \in 0..n }
\* the rates the long buffers are given at
HighRates == { r \in InRates : r >= OutRate }
\* the buffers 0.0, 1.0, 2.0, ... of up to n samples: every position has
\* its own value
Ramps(n) == { [i \in 1..m |-> (i - 1) * FloatOne] : m \in 0..n }

\* the server's menu (two of its sixteen ids), the ids and the quantities
\* of the items of a model draft, and the stock the client sends per menu
\* id. A quantity is a number, not only an integer: it is written in
\* halves, so the choices are -1, 0, 0.5, 1, 2.5 and 4.
MENU == { "classic", "cheese" }
DraftIds == MENU \cup { "pizza" }
DraftQtys == { -2, 0, 1, 2, 5, 8 }
ClientStocks == { -1, 2, 5 }
Drafts == SeqsUpTo([id : DraftIds, qty : DraftQtys], MaxDraft)

\* characters of a response text
Chars == {" ", "a", "b"}
SttTexts == { Undefined, Given(<<>>), Given(<<" ">>), Given(<<"a">>),
              Given(<<" ", "a", " ", "b", " ">>) }
TrTexts == { Undefined, Given(<<" ">>), Given(<<"a", " ">>) }

\* arguments of fetchWithRetry: tries, and baseDelayMs of the two call
\* sites and of the default
TriesChoices == 0..MaxTries
BaseDelayChoices == { 250, 300, 350 }

\* ------------------------------------------------------------- helpers
Min(a, b) == IF a <= b THEN a ELSE b
Max(a, b) == IF a >= b THEN a ELSE b

\* x ?? d
NullishOr(x, d) == IF x = Undefined THEN d ELSE CHOOSE v \in x : TRUE

\* String.prototype.trim on a sequence of characters
RECURSIVE TrimLeft(_)
TrimLeft(s) == IF s # <<>> /\ Head(s) = " " THEN TrimLeft(Tail(s)) ELSE s
RECURSIVE TrimRight(_)
TrimRight(s) ==
  IF s # <<>> /\ s[Len(s)] = " " THEN TrimRight(SubSeq(s, 1, Len(s) - 1)) ELSE s
Trim(s) == TrimRight(TrimLeft(s))

\* variant: the text is not trimmed
TextUntrimmed(body) == NullishOr(body, <<>>)

\* (json?.text || "").trim()
TextOf(body) == Trim(NullishOr(body, <<>>))

\* ---- the arithmetic of downsampleTo16k. Its numbers are IEEE-754 doubles
\* (53-bit significand, round to nearest, ties to even): ratio is the double
\* nearest inRate / 16000, and n / ratio and (idx + 1) * ratio are rounded
\* again. The operators below compute, in integers, what the doubles give,
\* for whole rates and buffers far shorter than 2^31 samples.
\* floor(log2(v)), v >= 1
RECURSIVE Log2Floor(_)
Log2Floor(v) == IF v < 2 THEN 0 ELSE 1 + Log2Floor(v \div 2)
RECURSIVE Pow2Mod125(_)
Pow2Mod125(s) == IF s = 0 THEN 1 ELSE (2 * Pow2Mod125(s - 1)) % 125
\* u * 2^eu < v * 2^ev
LessScaled(u, eu, v, ev) ==
  LET m == Min(eu, ev) IN u * 2^(eu - m) < v * 2^(ev - m)
\* 16000 = 125 * 2^7, so inRate / 16000 has the significand of inRate / 125.
\* RatioExp is a + 7 for the a with 2^a <= inRate / 125 < 2^(a + 1): one
\* unit in the last place of the ratio is 2^(RatioExp - 66).
RatioExp(inRate) ==
  LET b == Log2Floor(inRate)
  IN IF inRate * 64 < 125 * 2^b THEN b ELSE b + 1
\* by how much the double `ratio` exceeds inRate / 16000, in 125ths of a
\* unit in the last place (1..62), or 0 when the double is exact or below:
\* the 53-bit significand is inRate * 2^(59 - RatioExp) / 125 rounded to the
\* nearest integer.
RatioExcess(inRate) ==
  LET rem == ((inRate % 125) * Pow2Mod125(59 - RatioExp(inRate))) % 125
  IN IF rem >= 63 THEN 125 - rem ELSE 0

\* outLen = Math.floor(float32.length / ratio), for inRate # 16000. When
\* 16000 n / inRate is not a whole number the rounding errors (below 2^-51
\* of the quotient) are far less than its distance to a whole number. When
\* it is a whole number x >= 1 and ratio was rounded up, n / ratio is below
\* x, and the division rounds it back to x unless it is more than half a
\* unit in the last place under x: then the quotient is under x and its
\* floor is x - 1.
OutLen(n, inRate) ==
  LET x == (n * OutRate) \div inRate
      c == RatioExcess(inRate)
      k == Log2Floor(x)
      half == IF x = 2^k THEN 4 ELSE 2
  IN IF (n * OutRate) % inRate # 0 \/ x = 0 \/ c = 0 THEN x
     ELSE IF LessScaled(inRate, k + 7, half * c * x, RatioExp(inRate)) THEN x - 1
     ELSE x

\* pos < nextPos, where nextPos = (idx + 1) * ratio and j = idx + 1. When
\* j inRate / 16000 is the whole number pos and ratio was rounded up, the
\* product is above pos, and rounds to a double above pos when it is more
\* than half a unit in the last place over it.
BelowNextPos(pos, j, inRate) ==
  IF pos * OutRate # j * inRate THEN pos * OutRate < j * inRate
  ELSE /\ pos > 0
       /\ RatioExcess(inRate) > 0
       /\ LessScaled(1024000, Log2Floor(pos), j * RatioExcess(inRate), RatioExp(inRate))

\* the inner for loop: pos after it
RECURSIVE GroupEnd(_, _, _, _)
GroupEnd(pos, j, inRate, n) ==
  IF pos < n /\ BelowNextPos(pos, j, inRate)
  THEN GroupEnd(pos + 1, j, inRate, n)
  ELSE pos

RECURSIVE SumOf(_, _, _)
SumOf(float32, from, to) ==
  IF from >= to THEN 0 ELSE float32[from + 1] + SumOf(float32, from + 1, to)

\* the while loop from idx on: out[idx] = count ? sum / count : 0
RECURSIVE DownFrom(_, _, _, _, _)
DownFrom(float32, inRate, idx, pos, outLen) ==
  IF idx >= outLen THEN <<>>
  ELSE LET end == GroupEnd(pos, idx + 1, inRate, Len(float32))
           count == end - pos
           sum == SumOf(float32, pos, end)
       IN <<IF count # 0 THEN sum \div count ELSE 0>>
            \o DownFrom(float32, inRate, idx + 1, end, outLen)

\* downsampleTo16k(float32, inRate)
downsampleTo16k(float32, inRate) ==
  IF inRate = OutRate THEN float32
  ELSE DownFrom(float32, inRate, 0, 0, OutLen(Len(float32), inRate))

\* downsampleTo16k: length of the output
DownLen(n, inRate) ==
  IF inRate = OutRate THEN n ELSE OutLen(n, inRate)

\* ---- floatTo16BitPCM
\* the store of a number num / den into an Int16Array: the fraction is
\* dropped (towards zero) and the integer taken modulo 2^16 into
\* -32768..32767
ToInt16(num, den) ==
  LET t == IF num >= 0 THEN num \div den ELSE -((-num) \div den)
  IN ((t + 32768) % 65536) - 32768
\* variant: the sample is not clamped to [-1, 1]
PcmSampleUnclamped(v) ==
  ToInt16(IF v < 0 THEN v * NegScale ELSE v * PosScale, FloatOne)
\* one turn of the loop: s = Math.max(-1, Math.min(1, src[i]));
\* out[i] = s < 0 ? s * 0x8000 : s * 0x7fff
PcmSample(v) ==
  LET s == Max(-FloatOne, Min(FloatOne, v))
  IN ToInt16(IF s < 0 THEN s * NegScale ELSE s * PosScale, FloatOne)
floatTo16BitPCM(src) == [i \in 1..Len(src) |-> PcmSample(src[i])]

\* ---- encodeWav
\* DataView.setUint32 / setUint16 / setInt16 with littleEndian = true, and
\* writeString: the bytes written
Uint32LE(v) ==
  <<v % 256, (v \div 256) % 256, (v \div 65536) % 256, (v \div 16777216) % 256>>
Uint16LE(v) == <<v % 256, (v \div 256) % 256>>
\* variant: the samples are written big-endian
Int16BE(v) == LET u == (v + 65536) % 65536 IN <<(u \div 256) % 256, u % 256>>
Int16LE(v) == LET u == (v + 65536) % 65536 IN <<u % 256, (u \div 256) % 256>>
\* charCodeAt of the characters of the strings written
CharCodes(str) ==
  CASE str = "RIFF" -> <<82, 73, 70, 70>>
    [] str = "WAVE" -> <<87, 65, 86, 69>>
    [] str = "fmt " -> <<102, 109, 116, 32>>
    [] str = "data" -> <<100, 97, 116, 97>>
\* a write of bytes at a 0-based offset of the buffer
WriteAt(buffer, offset, bytes) ==
  [i \in 1..Len(buffer) |->
     IF i > offset /\ i <= offset + Len(bytes) THEN bytes[i - offset] ELSE buffer[i]]
\* the loop over the samples, from sample i (0-based) on
RECURSIVE WriteSamples(_, _, _)
WriteSamples(buffer, int16, i) ==
  IF i >= Len(int16) THEN buffer
  ELSE WriteSamples(WriteAt(buffer, WavHeader + 2 * i, Int16LE(int16[i + 1])), int16, i + 1)
\* the header writes, in the order of the source, on a zeroed buffer
RECURSIVE WriteAll(_, _)
WriteAll(buffer, writes) ==
  IF writes = <<>> THEN buffer
  ELSE WriteAll(WriteAt(buffer, writes[1][1], writes[1][2]), Tail(writes))
encodeWav(int16, sampleRate) ==
  LET bytesPerSample == 2
      blockAlign == 1 * bytesPerSample
      byteRate == sampleRate * blockAlign
      dataSize == Len(int16) * bytesPerSample
      buffer == [i \in 1..(WavHeader + dataSize) |-> 0]
      header == WriteAll(buffer,
        << <<0, CharCodes("RIFF")>>,
           <<4, Uint32LE(36 + dataSize)>>,
           <<8, CharCodes("WAVE")>>,
           <<12, CharCodes("fmt ")>>,
           <<16, Uint32LE(16)>>,
           <<20, <<1, 0>>>>,   \* String.fromCharCode(1, 0): PCM
           <<22, <<1, 0>>>>,   \* String.fromCharCode(1, 0): mono
           <<24, Uint32LE(sampleRate)>>,
           <<28, Uint32LE(byteRate)>>,
           <<32, Uint16LE(blockAlign)>>,
           <<34, Uint16LE(16)>>,
           <<36, CharCodes("data")>>,
           <<40, Uint32LE(dataSize)>> >>)
  IN WriteSamples(header, int16, 0)

\* frameMs = (down.length / 16000) * 1000
FrameMs(inRate) == (DownLen(ProcBufferSize, inRate) * 1000) \div OutRate

\* Array.prototype.indexOf, 0-based, -1 when absent
IndexOf(seq, x) ==
  IF \E i \in 1..Len(seq) : seq[i] = x
  THEN (CHOOSE i \in 1..Len(seq) : seq[i] = x /\ \A j \in 1..(i - 1) : seq[j] # x) - 1
  ELSE -1

\* variant: the results are delivered in completion order
Unsorted(results, outs) == results

\* results.sort((a, b) => outputs.indexOf(a.lang) - outputs.indexOf(b.lang));
\* Array.prototype.sort is stable: insertion of each element after the
\* elements that do not compare greater.
RECURSIVE InsertSorted(_, _, _)
InsertSorted(sorted, r, outs) ==
  IF sorted = <<>> THEN <<r>>
  ELSE IF IndexOf(outs, Head(sorted).lang) - IndexOf(outs, r.lang) <= 0
       THEN <<Head(sorted)>> \o InsertSorted(Tail(sorted), r, outs)
       ELSE <<r>> \o sorted
RECURSIVE SortByOutputs(_, _)
SortByOutputs(results, outs) ==
  IF results = <<>> THEN <<>>
  ELSE InsertSorted(SortByOutputs(SubSeq(results, 1, Len(results) - 1), outs),
                    results[Len(results)], outs)

LenOr1(outs) == IF Len(outs) = 0 THEN 1 ELSE Len(outs)

\* variant: translationParallelWorkers is ignored
MaxWorkersUncapped(outs, tpw) == 2 * LenOr1(outs)

\* maxWorkers = Math.max(1, Math.min(outputs.length || 1,
\*                                   translationParallelWorkers ?? (outputs.length || 1)))
\* in halves
MaxWorkers(outs, tpw) ==
  Max(2, Min(2 * LenOr1(outs), NullishOr(tpw, 2 * LenOr1(outs))))

\* the number of turns of `for (let i = 0; i < maxWorkers; i++)`
Runners(outs, tpw) == (MaxWorkers(outs, tpw) + 1) \div 2

\* voicedFraction < 0.18 with voicedFraction = voicedMs > 0 ?
\* voicedMs / Math.max(1, durMs) : 0, in integer arithmetic
VoicedFractionBelowGate(voiced, dur) ==
  IF voiced > 0 THEN voiced * 100 < GateVoicedPct * Max(1, dur) ELSE TRUE

\* variant: the minimum duration is not tested
RejectedNoMinSpeech(o, frames, dur, voiced) ==
  \/ Len(frames) = 0
  \/ (VoicedFractionBelowGate(voiced, dur) /\ dur < GateShortMs)

\* variant: the quality gate does not look at the duration
RejectedAnyDuration(o, frames, dur, voiced) ==
  \/ Len(frames) = 0
  \/ dur < o.minSpeechMs
  \/ VoicedFractionBelowGate(voiced, dur)

\* the pre-network rejections of finalizeSegment
Rejected(o, frames, dur, voiced) ==
  \/ Len(frames) = 0
  \/ dur < o.minSpeechMs
  \/ (VoicedFractionBelowGate(voiced, dur) /\ dur < GateShortMs)


\* --------------------------------------------------------------- state
VARIABLES
  lim,      \* how far this run is explored: sessions, segments, frames
  opts,     \* the options of the hook: segmenter options, outputs,
            \* translationParallelWorkers, and the hardware sample rate
  enabled,  \* opts.enabled of the last render
  cur,      \* the session of the effect run that is in force (0: none)
  nSess,    \* sessions started so far
  sess,     \* per session: the effect's `stopped` flag, the microphone
            \* stream and the audio graph it owns
  refs,     \* ctxRef, srcRef, procRef, mediaRef (a session, 0 = null) and
            \* reqCtrlRef (a segment, 0 = null)
  segm,     \* segFramesRef, segDurMsRef, silenceMsRef, speakingRef, voicedMsRef
  nFrames,  \* audio frames delivered so far (a frame is named by its number)
  nSeg,     \* segments that passed the gates of finalizeSegment so far
  pipe,     \* per segment: the run of finalizeSegment after the gates
  log,      \* the consumer callbacks invoked so far, in order
  fin,      \* history, read by no operation: the segment state handed to
            \* the last call of finalizeSegment, the frame at which it was
            \* called and the segment it submitted (0: discarded)
  retry,    \* one call of fetchWithRetry taken alone: its arguments, its
            \* locals i and lastErr, where it stands, and its attempts so far
  audio,    \* the last call of one of the audio utilities taken alone:
            \* the function, its arguments and what it returned
  order     \* the server's /api/llm handler taken alone: the stock sent by
            \* the client, the model's draft, and the response

vars ==
  <<lim, opts, enabled, cur, nSess, sess, refs, segm, nFrames, nSeg, pipe, log, fin, retry,
    audio, order>>

Sessions == 1..lim.sessions
Segs == 1..lim.segs

NoSession == [stopped |-> FALSE, mic |-> "none", graph |-> "none"]
NullRefs == [ctxRef |-> 0, srcRef |-> 0, procRef |-> 0, mediaRef |-> 0, reqCtrlRef |-> 0]
IdleSegment ==
  [segFrames |-> <<>>, segDurMs |-> 0, silenceMs |-> 0, speaking |-> FALSE, voicedMs |-> 0]
NoFinal == [at |-> 0, seg |-> 0, segFrames |-> <<>>, segDurMs |-> 0, silenceMs |-> 0,
            voicedMs |-> 0]
NoRetry ==
  [pc |-> "idle", tries |-> 0, baseDelayMs |-> 0, i |-> 0, lastErr |-> "undefined",
   attempts |-> <<>>]
NoOrder == [pc |-> "none", stock |-> <<>>, draft |-> <<>>, sanitized |-> <<>>,
            updatedStock |-> <<>>]
NoAudio == [fn |-> "none", inRate |-> 0, src |-> <<>>, out |-> <<>>, same |-> FALSE]

NoPipe ==
  [pc |-> "none", sess |-> 0, aborted |-> FALSE, try |-> 0, lastErr |-> "none",
   outcome |-> "pending", transcript |-> <<>>,
   queue |-> <<>>, results |-> <<>>, w |-> <<>>,
   frames |-> <<>>, durMs |-> 0, voicedMs |-> 0,
   \* history, read by no operation: the error of the last of the SttTries
   \* transcription attempts once it has failed (after which fetchWithRetry
   \* gives up), the response text of the transcription,
   \* per position of outputs the calls of translateOne, the positions whose
   \* call returned a non-empty text, those whose call threw, the order in
   \* which results were pushed, and where the pipeline stood when its
   \* controller was aborted and by whom
   gaveUp |-> "none", gotBody |-> FALSE, body |-> Undefined, calls |-> <<>>, ok |-> {}, failed |-> {},
   arrival |-> <<>>, cancel |-> [by |-> "none", at |-> "none"]]

InitWith(l, segmenters, configs) ==
  /\ lim = l
  /\ opts \in { [seg |-> c, outputs |-> x.outputs,
                 translationParallelWorkers |-> x.translationParallelWorkers,
                 sampleRate |-> r] :
                  c \in segmenters, x \in configs, r \in SampleRates }
  /\ enabled = FALSE
  /\ cur = 0
  /\ nSess = 0
  /\ sess = [k \in 1..l.sessions |-> NoSession]
  /\ refs = NullRefs
  /\ segm = IdleSegment
  /\ nFrames = 0
  /\ nSeg = 0
  /\ pipe = [s \in 1..l.segs |-> NoPipe]
  /\ log = <<>>
  /\ fin = NoFinal
  /\ retry = NoRetry
  /\ audio = NoAudio
  /\ order = NoOrder

Init ==
  InitWith([sessions |-> MaxSessions, segs |-> MaxSegs, frames |-> MaxFrames],
           SegmenterChoices, Configs)

InitDispatch ==
  InitWith([sessions |-> DispatchSessions, segs |-> DispatchSegs,
            frames |-> DispatchFrames], {ShortSpeech}, DispatchConfigs)

InitLifecycle ==
  InitWith([sessions |-> LifecycleSessions, segs |-> LifecycleSegs,
            frames |-> LifecycleFrames], {ShortSpeech},
           {[outputs |-> <<"en">>, translationParallelWorkers |-> Undefined]})

\* fetchWithRetry alone: the hook is not mounted
InitRetry ==
  InitWith([sessions |-> 0, segs |-> 0, frames |-> 0], {ShortSpeech},
           {[outputs |-> <<>>, translationParallelWorkers |-> Undefined]})

InitSegmenterLive ==
  InitWith([sessions |-> LiveSessions, segs |-> LiveSegs, frames |-> LiveFrames],
           { ShortSpeech, Overshoot, TinyMax },
           {[outputs |-> <<"en">>, translationParallelWorkers |-> Undefined]})

\* the audio utilities alone: the hook is not mounted
InitAudio ==
  InitWith([sessions |-> 0, segs |-> 0, frames |-> 0], {ShortSpeech},
           {[outputs |-> <<>>, translationParallelWorkers |-> Undefined]})

\* the pipelines under a network that answers: one worker for two targets,
\* and two workers with an empty target first
InitNetwork ==
  InitWith([sessions |-> NetSessions, segs |-> NetSegs, frames |-> NetFrames],
           SegmenterChoices,
           {[outputs |-> <<"en", "ja">>, translationParallelWorkers |-> Given(2)],
            [outputs |-> <<"", "en">>, translationParallelWorkers |-> Undefined]})

\* segments of less than three frames are rejected by the minSpeechMs gate
InitReject ==
  InitWith([sessions |-> RejectSessions, segs |-> RejectSegs, frames |-> RejectFrames],
           {LongSpeech},
           {[outputs |-> <<"en">>, translationParallelWorkers |-> Undefined]})

InitSegmenter ==
  InitWith([sessions |-> SegmenterSessions, segs |-> SegmenterSegs,
            frames |-> SegmenterFrames], GateChoices,
           {[outputs |-> <<"en">>, translationParallelWorkers |-> Undefined]})

\* an entry of the callback log
OnResult(s, k, original, translations) ==
  [cb |-> "onResult", seg |-> s, sess |-> k, original |-> original,
   translations |-> translations, msg |-> "none"]
OnError(s, k, msg) ==
  [cb |-> "onError", seg |-> s, sess |-> k, original |-> <<>>,
   translations |-> <<>>, msg |-> msg]

\* ------------------------------------------- transcription (finalizeSegment)
\* variant: the catch block reports every error, AbortError included
CatchReportsAbort(p, err) ==
  [p EXCEPT !.pc = "done", !.outcome = "error", !.try = 0, !.lastErr = err]

\* catch (e) { if (e?.name === "AbortError") return; onError?.(e?.message || String(e)); }
Catch(p, err) ==
  IF err = "abort"
  THEN [p EXCEPT !.pc = "done", !.outcome = "abort", !.try = 0, !.lastErr = "none"]
  ELSE [p EXCEPT !.pc = "done", !.outcome = "error", !.try = 0, !.lastErr = err]

\* variant: fetchWithRetry rethrows the first error instead of the last
SttFailFirstErr(p, err) ==
  LET first == IF p.lastErr = "none" THEN err ELSE p.lastErr
  IN IF p.try < SttTries - 1
     THEN [p EXCEPT !.pc = "stt_backoff", !.lastErr = first]
     ELSE Catch([p EXCEPT !.lastErr = first], first)

\* variant: fetchWithRetry waits and tries again after every failure
SttFailRetriesForever(p, err) == [p EXCEPT !.pc = "stt_backoff", !.lastErr = err]

\* fetchWithRetry, the catch block of attempt p.try of the transcription:
\* wait for the backoff timer unless this was the last attempt, else throw
SttFail(p, err) ==
  IF p.try < SttTries - 1
  THEN [p EXCEPT !.pc = "stt_backoff", !.lastErr = err]
  ELSE Catch([p EXCEPT !.lastErr = err], err)

\* fetchWithRetry, attempt i of the transcription: fetch(input, init); a
\* fetch on an aborted signal rejects at once
SttAttempt(p, i) ==
  IF p.aborted
  THEN SttFail([p EXCEPT !.try = i], "abort")
  ELSE [p EXCEPT !.pc = "stt_fetch", !.try = i]

\* ------------------------------------------------ translation worker pool
NewWorker == [pc |-> "new", lang |-> "", pos |-> 0, try |-> 0]
\* a runner that returned: its locals are gone
DoneWorker == [pc |-> "done", lang |-> "", pos |-> 0, try |-> 0]

\* variant: the attempt does not look at the signal
TrAttemptLiveSignal(p, j, i) == [p EXCEPT !.w[j].pc = "fetch", !.w[j].try = i]

RECURSIVE TrAttempt(_, _, _)
RECURSIVE TrFail(_, _, _)
RECURSIVE ClaimNext(_, _)

\* fetchWithRetry, attempt i of worker j's current translateOne
TrAttempt(p, j, i) ==
  IF p.aborted
  THEN TrFail([p EXCEPT !.w[j].try = i], j, "abort")
  ELSE [p EXCEPT !.w[j].pc = "fetch", !.w[j].try = i]

\* fetchWithRetry, the catch block of worker j's attempt; the error thrown
\* after the last attempt is swallowed by the worker's `catch {}`, so it is
\* not kept
TrFail(p, j, err) ==
  IF p.w[j].try < TrTries - 1
  THEN [p EXCEPT !.w[j].pc = "backoff"]
  ELSE ClaimNext([p EXCEPT !.failed = @ \cup {p.w[j].pos}], j)

\* one turn of worker j's loop:
\* while (queue.length) { const lang = queue.shift(); if (!lang) break; ... }
ClaimNext(p, j) ==
  IF p.queue = <<>>
  THEN [p EXCEPT !.w[j] = DoneWorker]
  ELSE LET lang == Head(p.queue)
           pos == Len(p.calls) - Len(p.queue) + 1
           p1 == [p EXCEPT !.queue = Tail(@)]
       IN IF lang = ""
          THEN [p1 EXCEPT !.w[j] = DoneWorker]
          ELSE TrAttempt([p1 EXCEPT !.calls[pos] = @ + 1, !.w[j].lang = lang,
                                     !.w[j].pos = pos], j, 0)

\* for (let i = 0; i < maxWorkers; i++) runners.push((async () => {...})());
\* each runner runs up to its first await before the next one is created
RECURSIVE RunWorkers(_, _, _)
RunWorkers(p, j, n) ==
  IF j > n THEN p ELSE RunWorkers(ClaimNext(p, j), j + 1, n)

StartWorkers(p, outs, tpw) ==
  LET n == Runners(outs, tpw)
      p0 == [p EXCEPT !.pc = "translate", !.queue = outs, !.results = <<>>,
                      !.calls = [i \in 1..Len(outs) |-> 0],
                      !.w = [j \in 1..n |-> NewWorker]]
  IN RunWorkers(p0, 1, n)

\* the `translations` argument of onResult; sort() sorts results in place
Translations(p, outs) == SortByOutputs(p.results, outs)

\* await Promise.allSettled(runners); onResult({...})
Finish(p, outs) ==
  IF p.pc = "translate" /\ \A j \in DOMAIN p.w : p.w[j].pc = "done"
  THEN [p EXCEPT !.pc = "done", !.outcome = "result", !.try = 0, !.lastErr = "none",
                 !.results = Translations(p, outs)]
  ELSE p

\* --------------------------------------------------------------- abort
\* the pending fetches and body reads of the workers reject with AbortError
RECURSIVE RejectWorkers(_, _)
RejectWorkers(p, j) ==
  IF j > Len(p.w) THEN p
  ELSE RejectWorkers(IF p.w[j].pc = "fetch" THEN TrFail(p, j, "abort")
                     ELSE IF p.w[j].pc = "body"
                          THEN ClaimNext([p EXCEPT !.failed = @ \cup {p.w[j].pos}], j)
                     ELSE p,
                     j + 1)

\* AbortController.abort() on the controller of a segment: the signal is
\* set, and every fetch or body read pending on it rejects with AbortError;
\* the continuations run before the next task. Timers are not tied to the
\* signal. A second abort() does nothing.
Abort(p, outs, by) ==
  IF p.aborted THEN p
  ELSE LET q == [p EXCEPT !.aborted = TRUE, !.cancel = [by |-> by, at |-> p.pc]]
       IN CASE q.pc = "stt_fetch" -> SttFail(q, "abort")
            [] q.pc = "stt_body" -> Catch(q, "abort")
            [] q.pc = "translate" -> Finish(RejectWorkers(q, 1), outs)
            [] OTHER -> q

\* variant: the controller in reqCtrlRef is left alone
AbortCtrlSkipped(pp, s, by) == pp

\* reqCtrlRef.current?.abort()
AbortCtrl(pp, s, by) ==
  IF s = 0 THEN pp ELSE [pp EXCEPT ![s] = Abort(@, opts.outputs, by)]

\* ------------------------------------------------------------ callbacks
\* variant: the catch block runs after onResult as well, as it would if
\* nothing told an exception of the try block from the end of it
EmitResultThenError(l, s, p, q) ==
  IF p.outcome = "pending" /\ q.outcome = "result"
  THEN Append(Append(l, OnResult(s, q.sess, q.transcript, q.results)),
              OnError(s, q.sess, "undefined"))
  ELSE IF p.outcome = "pending" /\ q.outcome = "error"
  THEN Append(l, OnError(s, q.sess, q.lastErr))
  ELSE l

\* the consumer callback, if any, that the step from p to q of segment s invokes
Emit(l, s, p, q) ==
  IF p.outcome = "pending" /\ q.outcome = "result"
  THEN Append(l, OnResult(s, q.sess, q.transcript, q.results))
  ELSE IF p.outcome = "pending" /\ q.outcome = "error"
  THEN Append(l, OnError(s, q.sess, q.lastErr))
  ELSE l

RECURSIVE EmitAll(_, _, _, _)
EmitAll(l, s, pp, qq) ==
  IF s > Len(pp) THEN l ELSE EmitAll(Emit(l, s, pp[s], qq[s]), s + 1, pp, qq)

Step(s, q) ==
  /\ pipe' = [pipe EXCEPT ![s] = q]
  /\ log' = Emit(log, s, pipe[s], q)
  /\ UNCHANGED <<lim, audio, order, fin, retry, opts, enabled, cur, nSess, sess, refs, segm, nFrames, nSeg>>

\* -------------------------------------------------------- network events
\* the transcription fetch settles: ok response, non-ok status or
\* transport error
SttFetchSettle(s, r) ==
  /\ pipe[s].pc = "stt_fetch"
  /\ Step(s, IF r = "ok" THEN [pipe[s] EXCEPT !.pc = "stt_body"]
             ELSE SttFail([pipe[s] EXCEPT
                             !.gaveUp = IF pipe[s].try = SttTries - 1 THEN r ELSE @], r))

\* the backoff timer of the transcription fires: next attempt
SttTimer(s) ==
  /\ pipe[s].pc = "stt_backoff"
  /\ Step(s, SttAttempt(pipe[s], pipe[s].try + 1))

\* sttRes.json() settles: parsed body or SyntaxError
SttBodySettle(s, r, text) ==
  /\ pipe[s].pc = "stt_body"
  /\ r # "json" => text = Undefined
  /\ Step(s,
       IF r # "json" THEN Catch(pipe[s], r)
       ELSE LET transcript == TextOf(text)
                p == [pipe[s] EXCEPT !.gotBody = TRUE, !.body = text,
                                     !.transcript = transcript]
            IN IF transcript = <<>>
               THEN [p EXCEPT !.pc = "done", !.outcome = "empty", !.try = 0, !.lastErr = "none"]
               ELSE Finish(StartWorkers(p, opts.outputs, opts.translationParallelWorkers), opts.outputs))

\* a translation fetch of worker j settles
TrFetchSettle(s, j, r) ==
  /\ pipe[s].pc = "translate"
  /\ j \in DOMAIN pipe[s].w
  /\ pipe[s].w[j].pc = "fetch"
  /\ Step(s, IF r = "ok" THEN [pipe[s] EXCEPT !.w[j].pc = "body"]
             ELSE Finish(TrFail(pipe[s], j, r), opts.outputs))

\* the backoff timer of worker j fires: next attempt
TrTimer(s, j) ==
  /\ pipe[s].pc = "translate"
  /\ j \in DOMAIN pipe[s].w
  /\ pipe[s].w[j].pc = "backoff"
  /\ Step(s, Finish(TrAttempt(pipe[s], j, pipe[s].w[j].try + 1), opts.outputs))

\* res.json() of worker j settles; a non-empty trimmed text is pushed to
\* results, everything else (and every error) leaves results alone
TrBodySettle(s, j, r, text) ==
  /\ pipe[s].pc = "translate"
  /\ j \in DOMAIN pipe[s].w
  /\ pipe[s].w[j].pc = "body"
  /\ r # "json" => text = Undefined
  /\ LET t == TextOf(text)
         wj == pipe[s].w[j]
         p == IF r # "json" THEN [pipe[s] EXCEPT !.failed = @ \cup {wj.pos}]
              ELSE IF t # <<>>
              THEN [pipe[s] EXCEPT !.results = Append(@, [lang |-> wj.lang, text |-> t]),
                                   !.arrival = Append(@, wj.pos),
                                   !.ok = @ \cup {wj.pos}]
              ELSE pipe[s]
     IN Step(s, Finish(ClaimNext(p, j), opts.outputs))

\* ------------------------------------------- fetchWithRetry, taken alone
\* variant: the same delay before every retry
BackoffConstant(baseDelayMs, i) == baseDelayMs

\* baseDelayMs * (1 << i)
BackoffMs(baseDelayMs, i) == baseDelayMs * 2^i

\* for (let i = 0; i < tries; i++) { try { const res = await fetch(input, init);
\* ... } throw lastErr;
RetryLoop(r, i) ==
  IF i < r.tries
  THEN [r EXCEPT !.pc = "fetch", !.i = i]
  ELSE [r EXCEPT !.pc = "thrown", !.i = i]

\* a call fetchWithRetry(input, init, tries, baseDelayMs)
RetryCall(tries, baseDelayMs) ==
  /\ retry.pc = "idle"
  /\ retry' = RetryLoop([NoRetry EXCEPT !.tries = tries, !.baseDelayMs = baseDelayMs], 0)
  /\ UNCHANGED <<lim, audio, order, opts, enabled, cur, nSess, sess, refs, segm, nFrames, nSeg, pipe, log, fin>>

\* the fetch of attempt i settles with r: an ok response is returned; a
\* non-ok status is thrown inside the try and caught like a transport
\* error: lastErr = e, then the backoff timer unless this was the last
\* attempt. attempts keeps, per attempt, its outcome and the delay of the
\* timer started after it.
RetrySettle(r) ==
  /\ retry.pc = "fetch"
  /\ retry' =
       IF r = "ok"
       THEN [retry EXCEPT !.pc = "returned",
                          !.attempts = Append(@, [i |-> retry.i, r |-> r, wait |-> Undefined])]
       ELSE IF retry.i < retry.tries - 1
       THEN [retry EXCEPT !.pc = "wait", !.lastErr = r,
                          !.attempts = Append(@, [i |-> retry.i, r |-> r,
                                                  wait |-> Given(BackoffMs(retry.baseDelayMs, retry.i))])]
       ELSE RetryLoop([retry EXCEPT !.lastErr = r,
                                    !.attempts = Append(@, [i |-> retry.i, r |-> r, wait |-> Undefined])],
                      retry.i + 1)
  /\ UNCHANGED <<lim, audio, order, opts, enabled, cur, nSess, sess, refs, segm, nFrames, nSeg, pipe, log, fin>>

\* the backoff timer fires: next turn of the loop
RetryTimer ==
  /\ retry.pc = "wait"
  /\ retry' = RetryLoop(retry, retry.i + 1)
  /\ UNCHANGED <<lim, audio, order, opts, enabled, cur, nSess, sess, refs, segm, nFrames, nSeg, pipe, log, fin>>

\* ------------------------------------------- the audio utilities alone
\* a call downsampleTo16k(float32, inRate); `same` tells that the buffer
\* returned is the buffer given, not a new one
DownsampleCall(float32, inRate) ==
  /\ audio.fn = "none"
  /\ audio' = [fn |-> "downsampleTo16k", inRate |-> inRate, src |-> float32,
               out |-> downsampleTo16k(float32, inRate), same |-> inRate = OutRate]
  /\ UNCHANGED <<lim, opts, enabled, cur, nSess, sess, refs, segm, nFrames, nSeg, pipe, log,
                 fin, retry, order>>

\* a call floatTo16BitPCM(src): a new Int16Array
PcmCall(src) ==
  /\ audio.fn = "none"
  /\ audio' = [fn |-> "floatTo16BitPCM", inRate |-> 0, src |-> src,
               out |-> floatTo16BitPCM(src), same |-> FALSE]
  /\ UNCHANGED <<lim, opts, enabled, cur, nSess, sess, refs, segm, nFrames, nSeg, pipe, log,
                 fin, retry, order>>

\* a call encodeWav(int16, 16000), as finalizeSegment calls it: a new
\* ArrayBuffer
WavCall(int16) ==
  /\ audio.fn = "none"
  /\ audio' = [fn |-> "encodeWav", inRate |-> OutRate, src |-> int16,
               out |-> encodeWav(int16, OutRate), same |-> FALSE]
  /\ UNCHANGED <<lim, opts, enabled, cur, nSess, sess, refs, segm, nFrames, nSeg, pipe, log,
                 fin, retry, order>>

\* the caller is done with the value returned
AudioReturn ==
  /\ audio.fn # "none"
  /\ audio' = NoAudio
  /\ UNCHANGED <<lim, opts, enabled, cur, nSess, sess, refs, segm, nFrames, nSeg, pipe, log,
                 fin, retry, order>>

\* ------------------------------ the server's /api/llm handler, alone
\* stockTable: Math.max(0, Number(clientStock[m.id] ?? 0)) per menu id
StockTable(clientStock) == [m \in MENU |-> Max(0, clientStock[m])]

\* reqQty = Math.max(0, Math.floor(Number(it.qty || 0))), qty in halves
ReqQty(qty) == Max(0, qty \div 2)

\* the sanitization loop from item i of the draft on, with the items pushed
\* and their total so far. The cap per item and the stock are applied to
\* each item of the draft on its own; the stock table is not changed by the
\* loop.
RECURSIVE SanitizeFrom(_, _, _, _, _)
SanitizeFrom(items, i, sanitized, total, stockTable) ==
  IF i > Len(items) THEN sanitized
  ELSE LET id == items[i].id
           reqQty == ReqQty(items[i].qty)
       IN IF id \notin MENU \/ reqQty <= 0
          THEN SanitizeFrom(items, i + 1, sanitized, total, stockTable)
          ELSE LET remainTotal == Max(0, MAX_TOTAL_QTY - total)
                   q == Min(Min(Min(reqQty, MAX_PER_ITEM), Max(0, stockTable[id])),
                            remainTotal)
                   pushed == IF q > 0 THEN Append(sanitized, [id |-> id, qty |-> q])
                             ELSE sanitized
                   sum == IF q > 0 THEN total + q ELSE total
               IN IF sum >= MAX_TOTAL_QTY THEN pushed
                  ELSE SanitizeFrom(items, i + 1, pushed, sum, stockTable)

\* newStock: for (const it of sanitized)
\*   newStock[it.id] = Math.max(0, newStock[it.id] - it.qty)
RECURSIVE NewStock(_, _, _)
NewStock(stock, sanitized, i) ==
  IF i > Len(sanitized) THEN stock
  ELSE NewStock([stock EXCEPT ![sanitized[i].id] = Max(0, @ - sanitized[i].qty)],
                sanitized, i + 1)

\* a request to /api/llm with the stock clientStock, for which the model
\* answers the draft `draft`: the order and the stock of the response
LlmRequest(clientStock, draft) ==
  /\ order.pc = "none"
  /\ LET stockTable == StockTable(clientStock)
         sanitized == SanitizeFrom(draft, 1, <<>>, 0, stockTable)
     IN order' = [pc |-> "responded", stock |-> stockTable, draft |-> draft,
                  sanitized |-> sanitized,
                  updatedStock |-> NewStock(stockTable, sanitized, 1)]
  /\ UNCHANGED <<lim, opts, enabled, cur, nSess, sess, refs, segm, nFrames, nSeg, pipe, log,
                 fin, retry, audio>>

\* the response was sent
LlmDone ==
  /\ order.pc = "responded"
  /\ order' = NoOrder
  /\ UNCHANGED <<lim, opts, enabled, cur, nSess, sess, refs, segm, nFrames, nSeg, pipe, log,
                 fin, retry, audio>>

\* ----------------------------------------------------------- lifecycle
\* variant: speakingRef is not reset
ResetKeepsSpeaking(sg) == [IdleSegment EXCEPT !.speaking = sg.speaking]

\* variant: the buffer and the duration are not emptied
ResetKeepsBuffer(sg) == [IdleSegment EXCEPT !.segFrames = sg.segFrames, !.segDurMs = sg.segDurMs]

\* resetSegmentState()
resetSegmentState(sg) == IdleSegment

\* variant: the refs are not set to null
cleanupKeepsHandles(w) ==
  [ pipe |-> AbortCtrl(w.pipe, w.refs.reqCtrlRef, "cleanup"),
    sess |-> [k \in Sessions |->
               [w.sess[k] EXCEPT
                  !.graph = IF k = w.refs.procRef /\ @ = "connected" THEN "disconnected" ELSE @,
                  !.mic = IF k = w.refs.mediaRef /\ @ = "live" THEN "released" ELSE @]],
    refs |-> w.refs,
    segm |-> resetSegmentState(w.segm) ]

\* cleanup(), on the part of the state it touches
cleanup(w) ==
  [ pipe |-> AbortCtrl(w.pipe, w.refs.reqCtrlRef, "cleanup"),
    sess |-> [k \in Sessions |->
               [w.sess[k] EXCEPT
                  !.graph = IF k = w.refs.procRef /\ @ = "connected" THEN "disconnected" ELSE @,
                  !.mic = IF k = w.refs.mediaRef /\ @ = "live" THEN "released" ELSE @]],
    refs |-> NullRefs,
    segm |-> resetSegmentState(w.segm) ]

World == [pipe |-> pipe, sess |-> sess, refs |-> refs, segm |-> segm]

\* the effect's cleanup function: () => { stopped = true; cleanup(); }
EffectCleanup(w) ==
  IF cur = 0 THEN w
  ELSE cleanup([w EXCEPT !.sess[cur].stopped = TRUE])

\* the effect body with enabled = true: getUserMedia is requested
StartSession(w) ==
  [w EXCEPT !.sess[nSess + 1] = [stopped |-> FALSE, mic |-> "pending", graph |-> "none"]]

SetWorld(w) ==
  /\ pipe' = w.pipe
  /\ sess' = w.sess
  /\ refs' = w.refs
  /\ segm' = w.segm
  /\ log' = EmitAll(log, 1, pipe, w.pipe)

\* a render whose effect dependencies changed, with opts.enabled = en:
\* the previous effect's cleanup function (if that run returned one), then
\* the effect body: `if (!enabled) { cleanup(); return; }` or a new session
Render(en) ==
  /\ en => nSess < lim.sessions
  /\ enabled' = en
  /\ IF en
     THEN /\ SetWorld(StartSession(EffectCleanup(World)))
          /\ cur' = nSess + 1
          /\ nSess' = nSess + 1
     ELSE /\ SetWorld(cleanup(EffectCleanup(World)))
          /\ cur' = 0
          /\ UNCHANGED nSess
  /\ UNCHANGED <<lim, audio, order, fin, retry, opts, nFrames, nSeg>>

\* getUserMedia resolves for session k; `built` is whether the construction
\* of the audio graph succeeds (new AudioContext, createMediaStreamSource,
\* createScriptProcessor may throw)
MicGranted(k, built) ==
  /\ sess[k].mic = "pending"
  /\ IF sess[k].stopped
     THEN \* if (stopped) return;
          /\ sess' = [sess EXCEPT ![k].mic = "live"]
          /\ UNCHANGED <<refs, segm, log>>
     ELSE IF built
     THEN /\ sess' = [sess EXCEPT ![k].mic = "live", ![k].graph = "connected"]
          /\ refs' = [refs EXCEPT !.mediaRef = k, !.ctxRef = k, !.srcRef = k, !.procRef = k]
          /\ segm' = IdleSegment
          /\ UNCHANGED log
     ELSE /\ sess' = [sess EXCEPT ![k].mic = "live", ![k].graph = "failed"]
          /\ refs' = [refs EXCEPT !.mediaRef = k]
          /\ log' = Append(log, OnError(0, k, "mic"))
          /\ UNCHANGED segm
  /\ UNCHANGED <<lim, audio, order, fin, retry, opts, enabled, cur, nSess, nFrames, nSeg, pipe>>

\* variant: the rejection of getUserMedia is swallowed
MicDeniedSilently(k) ==
  /\ sess[k].mic = "pending"
  /\ sess' = [sess EXCEPT ![k].mic = "denied"]
  /\ UNCHANGED <<lim, audio, order, fin, retry, opts, enabled, cur, nSess, refs, segm, nFrames, nSeg,
                 pipe, log>>

\* getUserMedia rejects for session k
MicDenied(k) ==
  /\ sess[k].mic = "pending"
  /\ sess' = [sess EXCEPT ![k].mic = "denied"]
  /\ log' = Append(log, OnError(0, k, "mic"))
  /\ UNCHANGED <<lim, audio, order, fin, retry, opts, enabled, cur, nSess, refs, segm, nFrames, nSeg, pipe>>


\* ------------------------------------------------------- audio callback
\* variant: one threshold, speech starts at vadGateLow
AccumulateSingleGate(sg, id, e, frameMs, o) ==
  IF ~sg.speaking
  THEN IF e >= o.vadGateLow
       THEN [sg EXCEPT !.speaking = TRUE, !.segFrames = Append(@, id),
                       !.segDurMs = @ + frameMs, !.silenceMs = 0,
                       !.voicedMs = @ + frameMs]
       ELSE sg
  ELSE IF e < o.vadGateLow
       THEN [sg EXCEPT !.segFrames = Append(@, id), !.segDurMs = @ + frameMs,
                       !.silenceMs = @ + frameMs]
       ELSE [sg EXCEPT !.segFrames = Append(@, id), !.segDurMs = @ + frameMs,
                       !.silenceMs = 0, !.voicedMs = @ + frameMs]

\* variant: the frame that starts a segment is not counted as voiced
AccumulateStartUnvoiced(sg, id, e, frameMs, o) ==
  IF ~sg.speaking
  THEN IF e >= o.vadGateHigh
       THEN [sg EXCEPT !.speaking = TRUE, !.segFrames = Append(@, id),
                       !.segDurMs = @ + frameMs, !.silenceMs = 0]
       ELSE sg
  ELSE IF e < o.vadGateLow
       THEN [sg EXCEPT !.segFrames = Append(@, id), !.segDurMs = @ + frameMs,
                       !.silenceMs = @ + frameMs]
       ELSE [sg EXCEPT !.segFrames = Append(@, id), !.segDurMs = @ + frameMs,
                       !.silenceMs = 0, !.voicedMs = @ + frameMs]

\* variant: the frames seen in Idle under the gate are kept in the buffer
AccumulatePreRoll(sg, id, e, frameMs, o) ==
  IF ~sg.speaking
  THEN IF e >= o.vadGateHigh
       THEN [sg EXCEPT !.speaking = TRUE, !.segFrames = Append(@, id),
                       !.segDurMs = @ + frameMs, !.silenceMs = 0,
                       !.voicedMs = @ + frameMs]
       ELSE [sg EXCEPT !.segFrames = Append(@, id)]
  ELSE IF e < o.vadGateLow
       THEN [sg EXCEPT !.segFrames = Append(@, id), !.segDurMs = @ + frameMs,
                       !.silenceMs = @ + frameMs]
       ELSE [sg EXCEPT !.segFrames = Append(@, id), !.segDurMs = @ + frameMs,
                       !.silenceMs = 0, !.voicedMs = @ + frameMs]

\* the segment state after the VAD branch of the callback, before any
\* finalize/reset
Accumulate(sg, id, e, frameMs, o) ==
  IF ~sg.speaking
  THEN IF e >= o.vadGateHigh
       THEN [sg EXCEPT !.speaking = TRUE, !.segFrames = Append(@, id),
                       !.segDurMs = @ + frameMs, !.silenceMs = 0,
                       !.voicedMs = @ + frameMs]
       ELSE sg
  ELSE IF e < o.vadGateLow
       THEN [sg EXCEPT !.segFrames = Append(@, id), !.segDurMs = @ + frameMs,
                       !.silenceMs = @ + frameMs]
       ELSE [sg EXCEPT !.segFrames = Append(@, id), !.segDurMs = @ + frameMs,
                       !.silenceMs = 0, !.voicedMs = @ + frameMs]

\* variant: the pad and the maximum have to be exceeded, not only reached
FinalizesWhenExceeded(before, after, e, o) ==
  /\ before.speaking
  /\ IF e < o.vadGateLow
     THEN after.silenceMs > o.padMs \/ after.segDurMs > o.maxSegmentMs
     ELSE after.segDurMs > o.maxSegmentMs

\* variant: the first silent frame finalizes, whatever padMs
FinalizesFirstSilence(before, after, e, o) ==
  /\ before.speaking
  /\ IF e < o.vadGateLow THEN TRUE ELSE after.segDurMs >= o.maxSegmentMs

\* variant: maxSegmentMs is tested on the silent frames only
FinalizesOnSilenceOnly(before, after, e, o) ==
  /\ before.speaking
  /\ e < o.vadGateLow
  /\ (after.silenceMs >= o.padMs \/ after.segDurMs >= o.maxSegmentMs)

\* whether the callback finalizes after this frame
Finalizes(before, after, e, o) ==
  /\ before.speaking
  /\ IF e < o.vadGateLow
     THEN after.silenceMs >= o.padMs \/ after.segDurMs >= o.maxSegmentMs
     ELSE after.segDurMs >= o.maxSegmentMs

\* variant: frames, durMs and voicedMs are read from the refs after the
\* reset instead of at the call
finalizeSegmentReadsLate(k, sg) ==
  IF Rejected(opts.seg, sg.segFrames, sg.segDurMs, sg.voicedMs)
  THEN [submitted |-> FALSE, pipe |-> pipe, refs |-> refs, nSeg |-> nSeg]
  ELSE LET aborted == AbortCtrl(pipe, refs.reqCtrlRef, "supersede")
           late == resetSegmentState(sg)
           new == SttAttempt([NoPipe EXCEPT !.sess = k,
                                            !.frames = late.segFrames,
                                            !.durMs = late.segDurMs,
                                            !.voicedMs = late.voicedMs], 0)
       IN [submitted |-> TRUE,
           pipe |-> [s \in DOMAIN pipe |-> IF s = nSeg + 1 THEN new ELSE aborted[s]],
           refs |-> [refs EXCEPT !.reqCtrlRef = nSeg + 1],
           nSeg |-> nSeg + 1]

\* variant: the previous controller is aborted before the gates
finalizeSegmentAbortsFirst(k, sg) ==
  LET aborted == AbortCtrl(pipe, refs.reqCtrlRef, "supersede")
  IN IF Rejected(opts.seg, sg.segFrames, sg.segDurMs, sg.voicedMs)
     THEN [submitted |-> FALSE, pipe |-> aborted, refs |-> refs, nSeg |-> nSeg]
     ELSE LET new == SttAttempt([NoPipe EXCEPT !.sess = k,
                                               !.frames = sg.segFrames,
                                               !.durMs = sg.segDurMs,
                                               !.voicedMs = sg.voicedMs], 0)
          IN [submitted |-> TRUE,
              pipe |-> [s \in DOMAIN pipe |-> IF s = nSeg + 1 THEN new ELSE aborted[s]],
              refs |-> [refs EXCEPT !.reqCtrlRef = nSeg + 1],
              nSeg |-> nSeg + 1]

\* finalizeSegment(), up to its first await, called from the frame callback
\* of session k on the segment state sg: the gates, then the abort of the
\* previous controller, a new controller and the first transcription fetch.
\* The result is the part of the state it leaves, and whether the segment
\* was submitted.
finalizeSegment(k, sg) ==
  IF Rejected(opts.seg, sg.segFrames, sg.segDurMs, sg.voicedMs)
  THEN [submitted |-> FALSE, pipe |-> pipe, refs |-> refs, nSeg |-> nSeg]
  ELSE LET aborted == AbortCtrl(pipe, refs.reqCtrlRef, "supersede")
           new == SttAttempt([NoPipe EXCEPT !.sess = k,
                                            !.frames = sg.segFrames,
                                            !.durMs = sg.segDurMs,
                                            !.voicedMs = sg.voicedMs], 0)
       IN [submitted |-> TRUE,
           pipe |-> [s \in DOMAIN pipe |-> IF s = nSeg + 1 THEN new ELSE aborted[s]],
           refs |-> [refs EXCEPT !.reqCtrlRef = nSeg + 1],
           nSeg |-> nSeg + 1]

\* variant: the callback awaits finalizeSegment(), so that the reset runs
\* only after the network has answered
onaudioprocessAwaits(k, e) ==
  LET sg == Accumulate(segm, nFrames + 1, e, FrameMs(opts.sampleRate), opts.seg)
  IN IF Finalizes(segm, sg, e, opts.seg)
     THEN LET f == finalizeSegment(k, sg)
          IN [submitted |-> f.submitted, pipe |-> f.pipe, refs |-> f.refs,
              nSeg |-> f.nSeg, segm |-> IF f.submitted THEN sg ELSE resetSegmentState(sg),
              fin |-> [at |-> nFrames + 1, seg |-> IF f.submitted THEN f.nSeg ELSE 0,
                       segFrames |-> sg.segFrames, segDurMs |-> sg.segDurMs,
                       silenceMs |-> sg.silenceMs, voicedMs |-> sg.voicedMs]]
     ELSE [submitted |-> FALSE, pipe |-> pipe, refs |-> refs, nSeg |-> nSeg, segm |-> sg,
           fin |-> fin]

\* proc.onaudioprocess of session k, for a frame of rms energy e: the state
\* the callback leaves
onaudioprocess(k, e) ==
  LET sg == Accumulate(segm, nFrames + 1, e, FrameMs(opts.sampleRate), opts.seg)
  IN IF Finalizes(segm, sg, e, opts.seg)
     THEN LET f == finalizeSegment(k, sg)
          IN [submitted |-> f.submitted, pipe |-> f.pipe, refs |-> f.refs,
              nSeg |-> f.nSeg, segm |-> resetSegmentState(sg),
              fin |-> [at |-> nFrames + 1, seg |-> IF f.submitted THEN f.nSeg ELSE 0,
                       segFrames |-> sg.segFrames, segDurMs |-> sg.segDurMs,
                       silenceMs |-> sg.silenceMs, voicedMs |-> sg.voicedMs]]
     ELSE [submitted |-> FALSE, pipe |-> pipe, refs |-> refs, nSeg |-> nSeg, segm |-> sg,
           fin |-> fin]

\* an audio frame is delivered to the processing node of session k
Frame(k, e) ==
  /\ sess[k].graph = "connected"
  /\ nFrames < lim.frames
  /\ LET after == onaudioprocess(k, e)
     IN /\ after.submitted => nSeg < lim.segs
        /\ segm' = after.segm
        /\ pipe' = after.pipe
        /\ refs' = after.refs
        /\ nSeg' = after.nSeg
        /\ log' = EmitAll(log, 1, pipe, after.pipe)
        /\ fin' = after.fin
  /\ nFrames' = nFrames + 1
  /\ UNCHANGED <<lim, audio, order, retry, opts, enabled, cur, nSess, sess>>

\* ------------------------------------------------------- specification
WorkerIds == 1..Runners(opts.outputs, opts.translationParallelWorkers)
FetchOutcomes == {"ok", "http", "net"}
BodyOutcomes == {"json", "syntax"}

Next ==
  \/ \E en \in BOOLEAN : Render(en)
  \/ \E k \in Sessions, built \in BOOLEAN : MicGranted(k, built)
  \/ \E k \in Sessions : MicDenied(k)
  \/ \E k \in Sessions, e \in Energies : Frame(k, e)
  \/ \E s \in Segs, r \in FetchOutcomes : SttFetchSettle(s, r)
  \/ \E s \in Segs : SttTimer(s)
  \/ \E s \in Segs, r \in BodyOutcomes, text \in SttTexts : SttBodySettle(s, r, text)
  \/ \E s \in Segs, j \in WorkerIds, r \in FetchOutcomes : TrFetchSettle(s, j, r)
  \/ \E s \in Segs, j \in WorkerIds : TrTimer(s, j)
  \/ \E s \in Segs, j \in WorkerIds, r \in BodyOutcomes, text \in TrTexts :
       TrBodySettle(s, j, r, text)

Spec == Init /\ [][Next]_vars
SpecDispatch == InitDispatch /\ [][Next]_vars
SpecLifecycle == InitLifecycle /\ [][Next]_vars

\* the capture side alone: renders, microphone acquisition and audio
\* frames, while every request stays unanswered
NextCapture ==
  \/ \E en \in BOOLEAN : Render(en)
  \/ \E k \in Sessions, built \in BOOLEAN : MicGranted(k, built)
  \/ \E k \in Sessions : MicDenied(k)
  \/ \E k \in Sessions, e \in Energies : Frame(k, e)

SpecSegmenter == InitSegmenter /\ [][NextCapture]_vars

\* calls of fetchWithRetry with every choice of arguments and every outcome
\* of each fetch
NextRetry ==
  \/ \E tries \in TriesChoices, baseDelayMs \in BaseDelayChoices : RetryCall(tries, baseDelayMs)
  \/ \E r \in FetchOutcomes : RetrySettle(r)
  \/ RetryTimer

\* the capture side with frames that keep arriving: the audio thread
\* delivers a frame to a connected processing node as long as it stays
\* connected
SpecSegmenterLive ==
  /\ InitSegmenterLive
  /\ [][NextCapture]_vars
  /\ WF_vars(\E k \in Sessions, e \in Energies : Frame(k, e))

SpecRetry == InitRetry /\ [][NextRetry]_vars

\* every fetch and every body read settles, and every backoff timer fires
Network ==
  \/ \E s \in Segs, r \in FetchOutcomes : SttFetchSettle(s, r)
  \/ \E s \in Segs : SttTimer(s)
  \/ \E s \in Segs, r \in BodyOutcomes, text \in SttTexts : SttBodySettle(s, r, text)
  \/ \E s \in Segs, j \in WorkerIds, r \in FetchOutcomes : TrFetchSettle(s, j, r)
  \/ \E s \in Segs, j \in WorkerIds : TrTimer(s, j)
  \/ \E s \in Segs, j \in WorkerIds, r \in BodyOutcomes, text \in TrTexts :
       TrBodySettle(s, j, r, text)

SpecNetworkLive == InitNetwork /\ [][Next]_vars /\ WF_vars(Network)

SpecRejectLive == InitReject /\ [][Next]_vars /\ WF_vars(Network)

\* the order sanitization alone, on every draft and stock of the input
\* domains
NextOrder ==
  \/ /\ order.pc = "none"
     /\ \E clientStock \in [MENU -> ClientStocks], draft \in Drafts :
          LlmRequest(clientStock, draft)
  \/ LlmDone

SpecOrder == InitAudio /\ [][NextOrder]_vars

\* the audio utilities alone, on every buffer and rate of the input domains
NextAudio ==
  \/ /\ audio.fn = "none"
     /\ \/ \E float32 \in SeqsUpTo(Levels, MaxSamples), inRate \in InRates :
             DownsampleCall(float32, inRate)
        \/ \E float32 \in Ramps(MaxRamp), inRate \in HighRates :
             DownsampleCall(float32, inRate)
        \/ \E src \in SeqsUpTo(PcmLevels, MaxPcm) : PcmCall(src)
        \/ \E int16 \in SeqsUpTo(Int16Levels, MaxPcm) : WavCall(int16)
  \/ AudioReturn

SpecAudio == InitAudio /\ [][NextAudio]_vars


\* =================================================================
\* Properties
\* =================================================================
\* the callbacks invoked for segment s
Entries(s, cb) == { i \in 1..Len(log) : log[i].seg = s /\ log[i].cb = cb }
Silent(s) == \A i \in 1..Len(log) : log[i].seg # s

\* the languages of a translations array
LangsOf(tr) == [i \in 1..Len(tr) |-> tr[i].lang]

\* the entries of outs at the positions in S, in the order of outs
RECURSIVE PickFrom(_, _, _)
PickFrom(outs, S, i) ==
  IF i > Len(outs) THEN <<>>
  ELSE (IF i \in S THEN <<outs[i]>> ELSE <<>>) \o PickFrom(outs, S, i + 1)
PickAt(outs, S) == PickFrom(outs, S, 1)

\* translation requests of a segment in flight: fetch sent, response not
\* yet read to its end
InFlight(p) == Cardinality({ j \in DOMAIN p.w : p.w[j].pc \in {"fetch", "body"} })

IsBlank(s) == \A i \in 1..Len(s) : s[i] = " "

\* the pipeline ran to its end before abort() was called on its controller,
\* or abort() was never called
NotCancelled(p) == p.cancel.at \in {"none", "done"}

\* C1: a segment whose controller was aborted by the next segment while its
\* transcription request was pending (an attempt in flight, the backoff
\* wait, or the response body being read) never gets onResult nor onError.
C1_SupersededIsSilent ==
  \A s \in Segs :
    (pipe[s].cancel.by = "supersede"
       /\ pipe[s].cancel.at \in {"stt_fetch", "stt_backoff", "stt_body"})
    => Silent(s)

\* C1 witness: segment 1 was superseded during its backoff wait and has
\* since run to its end, and its successor delivered a result.
C1_Witness ==
  /\ lim.segs >= 2
  /\ pipe[1].cancel = [by |-> "supersede", at |-> "stt_backoff"]
  /\ pipe[1].pc = "done"
  /\ Entries(2, "onResult") # {}

\* C2: once the effect's cleanup has run for a session, no onResult and no
\* onError is invoked for that session's work (original claim; fails).
C2_NoCallbackAfterCleanup ==
  [][\A i \in (Len(log) + 1)..Len(log') : ~sess'[log'[i].sess].stopped]_vars

\* C3: an abort that lands while the pipeline of a segment is running never
\* leads to onError for that segment.
C3_AbortNeverOnError ==
  \A s \in Segs :
    (pipe[s].aborted /\ pipe[s].cancel.at # "done") => Entries(s, "onError") = {}

\* C3 witness: one segment was aborted during translation by its successor,
\* the successor was aborted by cleanup in the backoff wait after a failed
\* attempt, and both have run to their end.
C3_Witness ==
  /\ lim.segs >= 2
  /\ pipe[1].cancel = [by |-> "supersede", at |-> "translate"]
  /\ pipe[2].cancel = [by |-> "cleanup", at |-> "stt_backoff"]
  /\ pipe[1].pc = "done"
  /\ pipe[2].pc = "done"

\* C4: the translations passed to onResult are exactly the targets whose
\* call returned a non-empty text, in the order of outputs.
C4_TranslationsInOutputOrder ==
  \A i \in 1..Len(log) :
    log[i].cb = "onResult" =>
      /\ LangsOf(log[i].translations) = PickAt(opts.outputs, pipe[log[i].seg].ok)
      /\ \A n \in 1..Len(log[i].translations) : log[i].translations[n].text # <<>>

\* C4 witness: of three targets the third answered first, the first
\* second, the middle one failed; the result lists the first then the third.
C4_Witness ==
  /\ opts.outputs = <<"ja", "ko", "en">>
  /\ pipe[1].arrival = <<3, 1>>
  /\ 2 \in pipe[1].failed
  /\ Entries(1, "onResult") # {}
  /\ \A i \in Entries(1, "onResult") : LangsOf(log[i].translations) = <<"ja", "en">>

CeilWorkers == (NullishOr(opts.translationParallelWorkers, 2 * Len(opts.outputs)) + 1) \div 2

C6_FailureDoesNotBlockOthers ==
  \A s \in Segs :
    (pipe[s].outcome = "result" /\ pipe[s].failed # {}) =>
      /\ \A pos \in 1..Len(opts.outputs) : pipe[s].calls[pos] >= 1
      /\ \A i \in Entries(s, "onResult") :
           LangsOf(log[i].translations) = PickAt(opts.outputs, pipe[s].ok)
      /\ pipe[s].ok \cap pipe[s].failed = {}
      /\ Entries(s, "onError") = {}

\* C7 (fails): translateOne is called at most once per entry of outputs,
\* and by the time onResult is invoked every entry has been taken from the
\* queue and translateOne called for it exactly once.
C7_EveryTargetOnce ==
  \A s \in Segs :
    /\ \A pos \in 1..Len(pipe[s].calls) : pipe[s].calls[pos] <= 1
    /\ pipe[s].outcome = "result" =>
         /\ pipe[s].queue = <<>>
         /\ \A pos \in 1..Len(opts.outputs) : pipe[s].calls[pos] = 1

\* C8 (fails): onResult is invoked at most once per segment, with the
\* trimmed transcript, when no target is unclaimed or in flight; and a
\* pipeline that ended with a non-empty transcript and was not aborted
\* has invoked it once.
C8_ResultOnceAfterAllWorkers ==
  \A s \in Segs :
    /\ Cardinality(Entries(s, "onResult")) <= 1
    /\ \A i \in Entries(s, "onResult") :
         /\ log[i].original = Trim(NullishOr(pipe[s].body, <<>>))
         /\ pipe[s].queue = <<>>
         /\ InFlight(pipe[s]) = 0
         /\ \A j \in DOMAIN pipe[s].w : pipe[s].w[j].pc = "done"
    /\ (pipe[s].pc = "done" /\ pipe[s].gotBody /\ NotCancelled(pipe[s])
          /\ ~IsBlank(NullishOr(pipe[s].body, <<>>)))
       => Cardinality(Entries(s, "onResult")) = 1

\* C9: a transcription response whose text is missing, empty or only
\* whitespace starts no translation worker and invokes no callback.
C9_BlankTranscriptIsSilent ==
  \A s \in Segs :
    (pipe[s].gotBody /\ IsBlank(NullishOr(pipe[s].body, <<>>))) =>
      /\ pipe[s].w = <<>>
      /\ pipe[s].calls = <<>>
      /\ Silent(s)

\* C9 witness: a response with a whitespace-only text was read.
C9_Witness ==
  /\ pipe[1].gotBody
  /\ pipe[1].body = Given(<<" ">>)
  /\ pipe[1].pc = "done"

\* C10: in Idle, a frame whose energy is below vadGateHigh (silence, or at
\* or above vadGateLow) leaves the Segmenter Idle with an empty buffer and
\* zero counters, and submits nothing.
C10_BelowGateHighStaysIdle ==
  \A k \in Sessions, e \in Energies :
    (sess[k].graph = "connected" /\ ~segm.speaking /\ e < opts.seg.vadGateHigh) =>
      LET after == onaudioprocess(k, e)
      IN /\ after.segm = IdleSegment
         /\ ~after.submitted
         /\ after.pipe = pipe
         /\ after.nSeg = nSeg
         /\ after.refs = refs

\* C10 witness: the first frame of the first session was processed and the
\* Segmenter is Idle, so that frame was below vadGateHigh.
C10_Witness ==
  /\ nSess = 1
  /\ sess[1].graph = "connected"
  /\ nFrames = 1
  /\ segm = IdleSegment

\* C11: a segment finalized with a total duration below minSpeechMs is
\* dropped: the call of finalizeSegment leaves the pipelines, the
\* controller and the callback log as they were, and every request and
\* every callback belongs to a segment that had reached minSpeechMs.
C11_ShortSegmentIsDropped ==
  /\ (fin.at > 0 /\ fin.segDurMs < opts.seg.minSpeechMs) => fin.seg = 0
  /\ \A s \in Segs : pipe[s].pc # "none" => pipe[s].durMs >= opts.seg.minSpeechMs
  /\ \A k \in Sessions, e \in Energies :
       LET sg == Accumulate(segm, nFrames + 1, e, FrameMs(opts.sampleRate), opts.seg)
           after == onaudioprocess(k, e)
       IN (sess[k].graph = "connected" /\ Finalizes(segm, sg, e, opts.seg)
             /\ sg.segDurMs < opts.seg.minSpeechMs)
          => /\ ~after.submitted
             /\ after.pipe = pipe
             /\ after.refs = refs
             /\ after.nSeg = nSeg
             /\ EmitAll(log, 1, pipe, after.pipe) = log

\* C11 witness: with minSpeechMs 384 a segment of two frames (256 ms) was
\* finalized at the second frame and dropped.
C11_Witness ==
  /\ opts.seg.minSpeechMs = 384
  /\ fin.at = 2
  /\ fin.segDurMs = 256
  /\ fin.seg = 0
  /\ nSeg = 0

\* C12 (fails): a segment without a silent frame (every frame at or above
\* vadGateLow, which holds of every frame at or above vadGateHigh) is
\* force-finalized with a total duration of at most maxSegmentMs, the
\* Segmenter is Idle after the finalizing frame, and a frame at or above
\* vadGateHigh then starts a new segment made of that frame alone.
C12_ForcedAtOrBeforeMax ==
  /\ (fin.at > 0 /\ fin.voicedMs = fin.segDurMs) => fin.segDurMs <= opts.seg.maxSegmentMs
  /\ (fin.at > 0 /\ fin.at = nFrames) => segm = IdleSegment
  /\ \A k \in Sessions, e \in Energies :
       (sess[k].graph = "connected" /\ fin.at > 0 /\ fin.at = nFrames
          /\ e >= opts.seg.vadGateHigh)
       => LET after == onaudioprocess(k, e)
          IN /\ after.segm.speaking
             /\ after.segm.segFrames = <<nFrames + 1>>
             /\ after.segm.segDurMs = FrameMs(opts.sampleRate)

\* the silent frames it takes for the trailing silence to reach padMs: the
\* test is made after a silent frame, so at least one
PadFrames ==
  Max(1, (opts.seg.padMs + FrameMs(opts.sampleRate) - 1) \div FrameMs(opts.sampleRate))

\* the last finalized segment was a voiced run (no frame below vadGateLow)
\* of at least minSpeechMs and less than maxSegmentMs, followed by silent
\* frames only
VoicedRunThenSilence ==
  /\ fin.at > 0
  /\ fin.silenceMs > 0
  /\ fin.voicedMs + fin.silenceMs = fin.segDurMs
  /\ fin.voicedMs >= opts.seg.minSpeechMs
  /\ fin.voicedMs < opts.seg.maxSegmentMs

\* such a segment was finalized at the first frame at which the trailing
\* silence reached padMs, and submitted as one new pipeline; the Segmenter
\* is Idle after the finalizing frame
OneSegmentOneRequest ==
  /\ fin.silenceMs = PadFrames * FrameMs(opts.sampleRate)
  /\ fin.segDurMs = fin.voicedMs + PadFrames * FrameMs(opts.sampleRate)
  /\ fin.seg # 0
  /\ fin.seg = nSeg
  /\ pipe[fin.seg].pc # "none"
  /\ pipe[fin.seg].frames = fin.segFrames
  /\ pipe[fin.seg].durMs = fin.segDurMs
  /\ fin.at = nFrames => segm = IdleSegment

\* C13 (original claim; fails): a voiced run of at least minSpeechMs and
\* less than maxSegmentMs followed by silence of at least padMs gives one
\* finalized segment, ending with the first frame at which the trailing
\* silence reaches padMs, and one transcription request.
C13_RunThenPadGivesOneRequest == VoicedRunThenSilence => OneSegmentOneRequest

\* C13 (amended): the same, provided the run and the silent frames before
\* the one that reaches padMs stay below maxSegmentMs, and the segment's
\* voiced fraction is at least 0.18 or its duration at least 1200 ms.
C13_RunThenPadWithinMaxAndGate ==
  (/\ VoicedRunThenSilence
   /\ fin.voicedMs + (PadFrames - 1) * FrameMs(opts.sampleRate) < opts.seg.maxSegmentMs
   /\ LET dur == fin.voicedMs + PadFrames * FrameMs(opts.sampleRate)
      IN fin.voicedMs * 100 >= 18 * dur \/ dur >= 1200)
  => OneSegmentOneRequest

\* C13 witness: with padMs 640, two voiced frames and five silent ones were
\* finalized at the seventh frame as one segment of 896 ms, and submitted.
C13_Witness ==
  /\ opts.seg.padMs = 640
  /\ fin.at = 7
  /\ fin.voicedMs = 256
  /\ fin.silenceMs = 640
  /\ fin.segDurMs = 896
  /\ fin.seg = 1
  /\ pipe[1].pc = "stt_fetch"

\* C14: between callbacks the segment buffer is non-empty exactly when the
\* Segmenter is Speaking, and when it is Idle the total, voiced and
\* trailing-silence durations are zero.
C14_BufferIffSpeaking ==
  /\ segm.speaking <=> segm.segFrames # <<>>
  /\ ~segm.speaking => (segm.segDurMs = 0 /\ segm.voicedMs = 0 /\ segm.silenceMs = 0)

\* C14 witness: a segment was finalized in the first session, the hook was
\* reconfigured, and the second session is Speaking with one frame.
C14_Witness ==
  /\ nSess = 2
  /\ cur = 2
  /\ fin.at = 2
  /\ segm.speaking
  /\ segm.segFrames = <<3>>

\* C15: from one callback to the next the total duration of a Speaking
\* segment does not decrease and its buffer only grows at the end; the
\* frame that finalizes leaves the buffer and the counters empty; and a
\* segment that starts holds the new frame alone, so that it shares no
\* frame with the segment finalized last.
C15_DurationGrowsBufferEmptied ==
  [][/\ (segm.speaking /\ segm'.speaking)
          => /\ segm'.segDurMs >= segm.segDurMs
             /\ Len(segm'.segFrames) >= Len(segm.segFrames)
             /\ SubSeq(segm'.segFrames, 1, Len(segm.segFrames)) = segm.segFrames
     /\ fin'.at # fin.at => segm' = IdleSegment
     /\ (~segm.speaking /\ segm'.speaking)
          => /\ segm'.segFrames = <<nFrames'>>
             /\ segm'.segDurMs = FrameMs(opts.sampleRate)
             /\ \A i \in 1..Len(fin.segFrames) : fin.segFrames[i] # nFrames'
             /\ \A s \in Segs : \A i \in 1..Len(pipe[s].frames) : pipe[s].frames[i] # nFrames'
    ]_vars

\* C15 witness: the first segment (frames 1 and 2) was finalized and
\* submitted, and the next one is Speaking with frames 3 and 4.
C15_Witness ==
  /\ pipe[1].frames = <<1, 2>>
  /\ fin.segFrames = <<1, 2>>
  /\ segm.speaking
  /\ segm.segFrames = <<3, 4>>
  /\ segm.segDurMs = 2 * FrameMs(opts.sampleRate)

\* C16: a finalized segment that has reached minSpeechMs is discarded,
\* leaving the pipelines, the controller and the callback log as they
\* were, exactly when its voiced duration is below 0.18 of its total
\* duration and its total duration is below 1200 ms; otherwise it is
\* submitted with its frames as a new pipeline.
C16_GateDiscardsIffQuietAndShort ==
  /\ (fin.at > 0 /\ fin.segDurMs >= opts.seg.minSpeechMs)
       => /\ fin.seg = 0 <=> (fin.voicedMs * 100 < 18 * fin.segDurMs /\ fin.segDurMs < 1200)
          /\ fin.seg # 0 => (pipe[fin.seg].pc # "none" /\ pipe[fin.seg].frames = fin.segFrames)
  /\ \A k \in Sessions, e \in Energies :
       LET sg == Accumulate(segm, nFrames + 1, e, FrameMs(opts.sampleRate), opts.seg)
           after == onaudioprocess(k, e)
       IN (sess[k].graph = "connected" /\ Finalizes(segm, sg, e, opts.seg)
             /\ sg.segDurMs >= opts.seg.minSpeechMs
             /\ sg.voicedMs * 100 < 18 * sg.segDurMs /\ sg.segDurMs < 1200)
          => /\ ~after.submitted
             /\ after.pipe = pipe
             /\ after.refs = refs
             /\ after.nSeg = nSeg
             /\ EmitAll(log, 1, pipe, after.pipe) = log

\* C16 witness: one voiced frame and five silent ones, 768 ms with a voiced
\* fraction of 1/6, were finalized at the sixth frame and discarded.
C16_Witness ==
  /\ fin.at = 6
  /\ fin.segDurMs = 768
  /\ fin.voicedMs = 128
  /\ fin.segDurMs >= opts.seg.minSpeechMs
  /\ fin.seg = 0
  /\ nSeg = 0

\* C17: fetchWithRetry makes at most `tries` attempts, numbered from 0; an
\* ok response ends it at once and is returned; a non-ok status and a
\* transport error are both followed by the next attempt, after a wait of
\* baseDelayMs * 2^i behind attempt i; behind the last attempt there is no
\* wait and the error of that attempt is thrown.
C17_RetryWithBackoff ==
  LET a == retry.attempts
      n == Len(a)
  IN /\ n <= retry.tries
     /\ \A m \in 1..n :
          /\ a[m].i = m - 1
          /\ a[m].r = "ok" => (m = n /\ retry.pc = "returned" /\ a[m].wait = Undefined)
          /\ (a[m].r # "ok" /\ m < retry.tries)
               => /\ a[m].wait = Given(retry.baseDelayMs * 2^(m - 1))
                  /\ m = n => \/ (retry.pc = "wait" /\ retry.i = m - 1)
                              \/ (retry.pc = "fetch" /\ retry.i = m)
          /\ (a[m].r # "ok" /\ m = retry.tries)
               => /\ a[m].wait = Undefined
                  /\ retry.pc = "thrown"
                  /\ retry.lastErr = a[m].r
     /\ retry.pc = "returned" => (n >= 1 /\ a[n].r = "ok")
     /\ retry.pc = "thrown" => (n = retry.tries /\ \A m \in 1..n : a[m].r # "ok")
     /\ retry.pc = "fetch" => (retry.i = n /\ n < retry.tries)

\* C17 witness: with tries = 3 and baseDelayMs = 250, a non-ok status, a
\* transport error after 250 ms and a non-ok status after 500 ms more; the
\* last error is thrown without a third wait.
C17_Witness ==
  /\ retry.tries = 3
  /\ retry.pc = "thrown"
  /\ retry.attempts = << [i |-> 0, r |-> "http", wait |-> Given(250)],
                         [i |-> 1, r |-> "net", wait |-> Given(500)],
                         [i |-> 2, r |-> "http", wait |-> Undefined] >>
  /\ retry.lastErr = "http"

\* C18: when every transcription attempt of a segment has failed with a
\* non-ok status or a transport error, onError has been invoked once for
\* the segment with the error of the last attempt, onResult has not, no
\* response body was read and no translation worker or call exists; and
\* onError is never invoked twice for a segment.
C18_AllAttemptsFailReportsOnce ==
  \A s \in Segs :
    /\ Cardinality(Entries(s, "onError")) <= 1
    /\ pipe[s].gaveUp # "none"
         => /\ pipe[s].pc = "done"
            /\ Cardinality(Entries(s, "onError")) = 1
            /\ \A i \in Entries(s, "onError") : log[i].msg = pipe[s].gaveUp
            /\ Entries(s, "onResult") = {}
            /\ ~pipe[s].gotBody
            /\ pipe[s].w = <<>>
            /\ pipe[s].calls = <<>>

\* C18 witness: the last attempt of segment 1 ended in a transport error
\* and onError was invoked with it.
C18_Witness ==
  /\ pipe[1].gaveUp = "net"
  /\ \E i \in 1..Len(log) : log[i] = OnError(1, pipe[1].sess, "net")

\* C19 (fails): once the effect's cleanup has run for a session, the
\* controllers of its segments are aborted, its audio graph is not
\* connected and its microphone stream is not live, also when the stream
\* is acquired only after the cleanup; and while no session is current, or
\* the current one is still acquiring its microphone, the Segmenter is
\* Idle and every ref is null.
C19_TeardownReleasesEverything ==
  /\ \A k \in Sessions :
       sess[k].stopped =>
         /\ sess[k].graph # "connected"
         /\ sess[k].mic # "live"
         /\ \A s \in Segs : (pipe[s].pc # "none" /\ pipe[s].sess = k) => pipe[s].aborted
  /\ (cur = 0 \/ sess[cur].mic = "pending") => (segm = IdleSegment /\ refs = NullRefs)

\* C20 (fails): at most one microphone stream is live and at most one
\* audio graph is connected, the connected graph is that of the current
\* session, and a session that was cleaned up is never connected.
C20_AtMostOneLiveSession ==
  /\ Cardinality({ k \in Sessions : sess[k].mic = "live" }) <= 1
  /\ Cardinality({ k \in Sessions : sess[k].graph = "connected" }) <= 1
  /\ \A k \in Sessions : sess[k].graph = "connected" => (k = cur /\ ~sess[k].stopped)

\* C21: every controller the hook has created is aborted, except at most
\* one, which is the one in reqCtrlRef; so at most one transcription
\* request is outstanding on a signal that is not aborted.
C21_OneLiveController ==
  /\ \A s \in Segs : (pipe[s].pc # "none" /\ ~pipe[s].aborted) => refs.reqCtrlRef = s
  /\ Cardinality({ s \in Segs : pipe[s].pc # "none" /\ ~pipe[s].aborted }) <= 1
  /\ Cardinality({ s \in Segs : pipe[s].pc \in {"stt_fetch", "stt_backoff", "stt_body"}
                                  /\ ~pipe[s].aborted }) <= 1

\* C21 witness: segment 2 was submitted while the transcription of
\* segment 1 was in flight; segment 1 is aborted and waits in its backoff,
\* the request of segment 2 is outstanding.
C21_Witness ==
  /\ lim.segs >= 2
  /\ pipe[1].cancel = [by |-> "supersede", at |-> "stt_fetch"]
  /\ pipe[1].pc = "stt_backoff"
  /\ pipe[2].pc = "stt_fetch"
  /\ ~pipe[2].aborted
  /\ refs.reqCtrlRef = 2

\* C22: the segment state the frame callback leaves depends on the segment
\* state and the frame alone, whatever requests are pending: the frame is
\* accumulated, and if it finalizes, the Segmenter is Idle with an empty
\* buffer when the callback returns.
C22_FrameNeverWaits ==
  /\ \A k \in Sessions, e \in Energies :
       sess[k].graph = "connected" =>
         LET sg == Accumulate(segm, nFrames + 1, e, FrameMs(opts.sampleRate), opts.seg)
         IN onaudioprocess(k, e).segm =
              IF Finalizes(segm, sg, e, opts.seg) THEN IdleSegment ELSE sg
  /\ (fin.at > 0 /\ fin.at = nFrames) => segm = IdleSegment

\* C22 witness: segment 1 was submitted at the second frame and its
\* transcription request is still pending; the third and fourth frame were
\* processed meanwhile and make the next segment.
C22_Witness ==
  /\ fin.at = 2
  /\ fin.seg = 1
  /\ pipe[1].pc = "stt_fetch"
  /\ ~pipe[1].aborted
  /\ nFrames = 4
  /\ segm.speaking
  /\ segm.segFrames = <<3, 4>>

\* C23: the frames, the total duration and the voiced duration of a
\* submitted segment are those the Segmenter held when finalizeSegment was
\* called: consecutive frames that passed the gates; and no later step (the
\* reset, later frames, the network, cleanup) changes them.
C23_HandedOffByValue ==
  /\ [](/\ fin.seg # 0 =>
             /\ pipe[fin.seg].frames = fin.segFrames
             /\ pipe[fin.seg].durMs = fin.segDurMs
             /\ pipe[fin.seg].voicedMs = fin.voicedMs
        /\ \A s \in Segs :
             pipe[s].pc # "none" =>
               /\ pipe[s].frames # <<>>
               /\ pipe[s].durMs = Len(pipe[s].frames) * FrameMs(opts.sampleRate)
               /\ \A i \in 1..Len(pipe[s].frames) : pipe[s].frames[i] = pipe[s].frames[1] + i - 1
               /\ ~Rejected(opts.seg, pipe[s].frames, pipe[s].durMs, pipe[s].voicedMs))
  /\ [][\A s \in Segs :
          pipe[s].pc # "none" =>
            /\ pipe'[s].frames = pipe[s].frames
            /\ pipe'[s].durMs = pipe[s].durMs
            /\ pipe'[s].voicedMs = pipe[s].voicedMs]_vars

\* C23 witness: segment 1 (frames 1 and 2, 256 ms, 128 ms voiced) is in
\* its translation phase, and the Segmenter, reset since, holds frame 3.
C23_Witness ==
  /\ fin.seg = 1
  /\ pipe[1].pc = "translate"
  /\ pipe[1].frames = <<1, 2>>
  /\ pipe[1].durMs = 256
  /\ pipe[1].voicedMs = 128
  /\ segm.segFrames = <<3>>

\* ---- the audio utilities
\* reading a container back: the unsigned little-endian number of the
\* `size` bytes at a 0-based offset, and the samples of the payload
RECURSIVE UintAt(_, _, _)
UintAt(bytes, offset, size) ==
  IF size = 0 THEN 0
  ELSE bytes[offset + 1] + 256 * UintAt(bytes, offset + 1, size - 1)
Int16At(bytes, offset) ==
  LET u == UintAt(bytes, offset, 2) IN IF u >= 32768 THEN u - 65536 ELSE u
DecodeWav(bytes) ==
  [i \in 1..(UintAt(bytes, 40, 4) \div 2) |-> Int16At(bytes, WavHeader + 2 * (i - 1))]

ExactGroupEnd(k, inRate, n) ==
  IF k < 0 THEN 0 ELSE Min(n, ((k + 1) * inRate + OutRate - 1) \div OutRate)

\* C25: every output sample of downsampleTo16k is the arithmetic mean of
\* its group of input samples, for rates above and below 16000; the groups
\* are consecutive, disjoint and in input order, and the group of output k
\* is the input positions below (k + 1) * Rin / 16000 that no earlier
\* output used.
C25_OutputIsMeanOfGroup ==
  audio.fn = "downsampleTo16k" =>
    \A k \in 0..(Len(audio.out) - 1) :
      LET from == ExactGroupEnd(k - 1, audio.inRate, Len(audio.src))
          to == ExactGroupEnd(k, audio.inRate, Len(audio.src))
      IN /\ from < to
         /\ audio.out[k + 1] * (to - from) = SumOf(audio.src, from, to)

\* C26: for a buffer of N 16-bit samples encodeWav returns 44 + 2N bytes:
\* "RIFF", the size 36 + 2N, "WAVE", "fmt ", the chunk size 16, format
\* tag 1, 1 channel, sample rate 16000, byte rate 32000, block alignment 2,
\* 16 bits per sample, "data", the data size 2N, all little-endian, then
\* the samples; decoding the payload gives the N samples back in order, and
\* encoding the same buffer again gives the same bytes.
C26_WavContainer ==
  audio.fn = "encodeWav" =>
    LET b == audio.out
        n == Len(audio.src)
    IN /\ Len(b) = 44 + 2 * n
       /\ \A i \in 1..Len(b) : b[i] \in 0..255
       /\ SubSeq(b, 1, 4) = <<82, 73, 70, 70>>
       /\ UintAt(b, 4, 4) = 36 + 2 * n
       /\ SubSeq(b, 9, 16) = <<87, 65, 86, 69, 102, 109, 116, 32>>
       /\ UintAt(b, 16, 4) = 16
       /\ UintAt(b, 20, 2) = 1
       /\ UintAt(b, 22, 2) = 1
       /\ UintAt(b, 24, 4) = 16000
       /\ UintAt(b, 28, 4) = 32000
       /\ UintAt(b, 32, 2) = 2
       /\ UintAt(b, 34, 2) = 16
       /\ SubSeq(b, 37, 40) = <<100, 97, 116, 97>>
       /\ UintAt(b, 40, 4) = 2 * n
       /\ DecodeWav(b) = audio.src
       /\ encodeWav(audio.src, OutRate) = b

\* C26 witness: the samples -32768 and 255 were encoded: 48 bytes, the
\* payload is 00 80 ff 00.
C26_Witness ==
  /\ audio.fn = "encodeWav"
  /\ audio.src = <<-32768, 255>>
  /\ Len(audio.out) = 48
  /\ SubSeq(audio.out, 45, 48) = <<0, 128, 255, 0>>

\* C27: floatTo16BitPCM clamps every sample to [-1, 1], then scales the
\* negative ones by 32768 and the others by 32767 (the fraction is dropped):
\* every output is in -32768..32767, inputs of -1 and below give -32768,
\* inputs of 1 and above give 32767, 0 gives 0, and a greater input never
\* gives a smaller output.
C27_PcmClampsAndScales ==
  audio.fn = "floatTo16BitPCM" =>
    /\ Len(audio.out) = Len(audio.src)
    /\ \A i \in 1..Len(audio.src) :
         LET v == audio.src[i]
             o == audio.out[i]
         IN /\ o \in -32768..32767
            /\ v <= -FloatOne => o = -32768
            /\ v >= FloatOne => o = 32767
            /\ v = 0 => o = 0
            /\ (0 <= v /\ v <= FloatOne)
                 => (o * FloatOne <= v * 32767 /\ v * 32767 < (o + 1) * FloatOne)
            /\ (-FloatOne <= v /\ v < 0)
                 => ((o - 1) * FloatOne < v * 32768 /\ v * 32768 <= o * FloatOne)
    /\ \A i, j \in 1..Len(audio.src) :
         audio.src[i] <= audio.src[j] => audio.out[i] <= audio.out[j]

\* C27 witness: the samples -2.0 and 1.125 were converted to -32768 and
\* 32767.
C27_Witness ==
  /\ audio.fn = "floatTo16BitPCM"
  /\ audio.src = <<-48, 27>>
  /\ audio.out = <<-32768, 32767>>

\* C28: cleanup is idempotent. From every state, a second cleanup right
\* after a first one changes nothing and invokes no callback; after one
\* cleanup all handles are null and the Segmenter is Idle with an empty
\* buffer; when no session was ever started cleanup changes nothing at all;
\* abort() on a controller already aborted changes nothing; and while the
\* hook is disabled the state is the cleaned one.
C28_CleanupIdempotent ==
  LET once == cleanup(World)
      twice == cleanup(once)
  IN /\ twice = once
     /\ EmitAll(log, 1, once.pipe, twice.pipe) = log
     /\ once.refs = NullRefs
     /\ once.segm = IdleSegment
     /\ nSess = 0 => once = World
     /\ \A s \in Segs :
          pipe[s].aborted => Abort(pipe[s], opts.outputs, "cleanup") = pipe[s]
     /\ ~enabled => (refs = NullRefs /\ segm = IdleSegment /\ cleanup(World) = World)

\* C28 witness: the hook was disabled while the first session had its graph
\* connected and a segment in flight: the effect's cleanup function and the
\* effect body each ran cleanup.
C28_Witness ==
  /\ ~enabled
  /\ nSess = 1
  /\ sess[1].stopped
  /\ sess[1].graph = "disconnected"
  /\ sess[1].mic = "released"
  /\ pipe[1].cancel.by = "cleanup"
  /\ refs = NullRefs
  /\ segm = IdleSegment

\* the onError calls of the microphone initialisation of session k
MicErrors(k) ==
  { i \in 1..Len(log) : log[i].cb = "onError" /\ log[i].seg = 0 /\ log[i].sess = k }

\* C29: when getUserMedia rejects or the construction of the audio graph
\* throws for a session that has not been stopped, onError has been invoked
\* exactly once for it, with a message, no frame callback is installed
\* (procRef is not that session's node, no graph is connected) and the
\* Segmenter is Idle with an empty buffer; the failing step itself invokes
\* onError once and leaves procRef and the Segmenter alone.
C29_InitFailureReportedOnce ==
  /\ [](\A k \in Sessions :
          ((sess[k].mic = "denied" \/ sess[k].graph = "failed") /\ ~sess[k].stopped) =>
            /\ Cardinality(MicErrors(k)) = 1
            /\ \A i \in MicErrors(k) : log[i].msg # "none"
            /\ refs.procRef # k
            /\ \A j \in Sessions : sess[j].graph # "connected"
            /\ segm = IdleSegment)
  /\ [][\A k \in Sessions :
          (/\ ~sess[k].stopped
           /\ sess[k].mic = "pending"
           /\ (sess'[k].mic = "denied" \/ sess'[k].graph = "failed")) =>
            /\ log' = Append(log, OnError(0, k, "mic"))
            /\ refs'.procRef = refs.procRef
            /\ segm = IdleSegment
            /\ segm' = IdleSegment]_vars

\* C29 witness: the microphone was denied to the first session; the hook
\* was reconfigured, the second session got its stream and the construction
\* of its graph threw: one onError each.
C29_Witness ==
  /\ nSess = 2
  /\ enabled
  /\ sess[1].mic = "denied"
  /\ sess[2].graph = "failed"
  /\ ~sess[2].stopped
  /\ log = <<OnError(0, 1, "mic"), OnError(0, 2, "mic")>>

\* C30: in Idle, a frame with energy at or above vadGateHigh makes the
\* Segmenter Speaking with that frame as the only element of the buffer,
\* the total and the voiced duration equal to the duration of that frame
\* and no trailing silence; a frame under vadGateHigh leaves Idle as it is,
\* so no frame seen in Idle before the start is part of the segment.
C30_IdleToSpeakingOnHighFrame ==
  /\ [](\A k \in Sessions, e \in Energies :
          (sess[k].graph = "connected" /\ ~segm.speaking) =>
            onaudioprocess(k, e).segm =
              IF e >= opts.seg.vadGateHigh
              THEN [speaking |-> TRUE, segFrames |-> <<nFrames + 1>>,
                    segDurMs |-> FrameMs(opts.sampleRate),
                    voicedMs |-> FrameMs(opts.sampleRate), silenceMs |-> 0]
              ELSE IdleSegment)
  /\ [][(~segm.speaking /\ segm'.speaking) =>
          /\ nFrames' = nFrames + 1
          /\ segm' = [speaking |-> TRUE, segFrames |-> <<nFrames'>>,
                      segDurMs |-> FrameMs(opts.sampleRate),
                      voicedMs |-> FrameMs(opts.sampleRate), silenceMs |-> 0]]_vars

\* C30 witness: the first frame came in Idle between the gates and was
\* dropped; the second, at vadGateHigh, started the segment, which holds
\* frame 2 alone.
C30_Witness ==
  /\ nFrames = 2
  /\ fin.at = 0
  /\ segm = [speaking |-> TRUE, segFrames |-> <<2>>, segDurMs |-> 128,
             voicedMs |-> 128, silenceMs |-> 0]

\* the segment state a frame of energy e must leave in Speaking, before any
\* finalization, as C31 states it
SpeakingPlus(e) ==
  [speaking |-> TRUE,
   segFrames |-> Append(segm.segFrames, nFrames + 1),
   segDurMs |-> segm.segDurMs + FrameMs(opts.sampleRate),
   silenceMs |-> IF e >= opts.seg.vadGateLow THEN 0
                 ELSE segm.silenceMs + FrameMs(opts.sampleRate),
   voicedMs |-> IF e >= opts.seg.vadGateLow THEN segm.voicedMs + FrameMs(opts.sampleRate)
                ELSE segm.voicedMs]

\* in Speaking, the callback of a frame of energy e accumulates as C31
\* states, and finalizes (hands that segment to finalizeSegment and leaves
\* the Segmenter Idle) exactly when `due` holds
SpeakingFrame(k, e, due) ==
  LET after == onaudioprocess(k, e)
      finalized == after.fin.at = nFrames + 1
  IN /\ finalized <=> due
     /\ finalized =>
          /\ after.segm = IdleSegment
          /\ after.fin.segFrames = SpeakingPlus(e).segFrames
          /\ after.fin.segDurMs = SpeakingPlus(e).segDurMs
          /\ after.fin.silenceMs = SpeakingPlus(e).silenceMs
          /\ after.fin.voicedMs = SpeakingPlus(e).voicedMs
     /\ ~finalized => after.segm = SpeakingPlus(e)

\* C31 (original claim; fails): in Speaking every frame is appended and
\* counted, and the segment is finalized on exactly the frames after which
\* the trailing silence is at least padMs or the total duration at least
\* maxSegmentMs.
C31_FinalizedIffPadOrMax ==
  \A k \in Sessions, e \in Energies :
    (sess[k].graph = "connected" /\ segm.speaking) =>
      SpeakingFrame(k, e, \/ SpeakingPlus(e).silenceMs >= opts.seg.padMs
                          \/ SpeakingPlus(e).segDurMs >= opts.seg.maxSegmentMs)

\* C31 (amended): the same, where the trailing silence is compared with
\* padMs on the frames below vadGateLow only.
C31_FinalizedIffSilentPadOrMax ==
  \A k \in Sessions, e \in Energies :
    (sess[k].graph = "connected" /\ segm.speaking) =>
      SpeakingFrame(k, e, \/ /\ e < opts.seg.vadGateLow
                             /\ SpeakingPlus(e).silenceMs >= opts.seg.padMs
                          \/ SpeakingPlus(e).segDurMs >= opts.seg.maxSegmentMs)

\* C31 witness: with padMs 0, two voiced frames were appended: the trailing
\* silence, 0, is at least padMs and the segment was not finalized.
C31_Witness ==
  /\ opts.seg.padMs = 0
  /\ fin.at = 0
  /\ segm = [speaking |-> TRUE, segFrames |-> <<1, 2>>, segDurMs |-> 256,
             silenceMs |-> 0, voicedMs |-> 256]

\* C32: the Segmenter is never Speaking after more than
\* ceil(maxSegmentMs / frame duration) consecutive frames, whatever their
\* energies, and whenever it is Speaking and frames keep arriving it
\* returns to Idle (or the frames or the segments of this run are used up).
C32_SpeakingEnds ==
  /\ [](segm.speaking =>
          Len(segm.segFrames) * FrameMs(opts.sampleRate)
            < opts.seg.maxSegmentMs + FrameMs(opts.sampleRate))
  /\ (segm.speaking ~> (~segm.speaking \/ nFrames >= lim.frames \/ nSeg >= lim.segs))

\* C32 witness: with maxSegmentMs 384, three frames at or above vadGateLow
\* in a row were finalized by the maximum at the third, and the Segmenter
\* is Idle.
C32_Witness ==
  /\ opts.seg.maxSegmentMs = 384
  /\ fin.at = 3
  /\ fin.voicedMs = 384
  /\ fin.silenceMs = 0
  /\ nFrames = 3
  /\ ~segm.speaking

\* ---- the server's order sanitization
RECURSIVE QtyOf(_, _, _)
QtyOf(items, id, i) ==
  IF i > Len(items) THEN 0
  ELSE (IF items[i].id = id THEN items[i].qty ELSE 0) + QtyOf(items, id, i + 1)

\* C33: for every draft the sanitized order names menu ids only, with
\* positive whole quantities; the quantity ordered of a menu item is at
\* most MAX_PER_ITEM and at most the stock of the item; the total quantity
\* is at most MAX_TOTAL_QTY; and no updated stock is negative.
C33_OrderWithinPolicyAndStock ==
  order.pc = "responded" =>
    /\ \A i \in 1..Len(order.sanitized) :
         /\ order.sanitized[i].id \in MENU
         /\ order.sanitized[i].qty \in Nat \ {0}
    /\ \A m \in MENU :
         /\ QtyOf(order.sanitized, m, 1) <= MAX_PER_ITEM
         /\ QtyOf(order.sanitized, m, 1) <= order.stock[m]
         /\ order.updatedStock[m] >= 0
    /\ QtyOf(order.sanitized, "classic", 1) + QtyOf(order.sanitized, "cheese", 1)
         <= MAX_TOTAL_QTY

\* ---- termination of the pipelines
RECURSIVE SumCalls(_, _)
SumCalls(calls, i) == IF i > Len(calls) THEN 0 ELSE calls[i] + SumCalls(calls, i + 1)

\* the callbacks of segment s are those of the outcome of its pipeline
OutcomeReported(s) ==
  LET p == pipe[s]
  IN /\ p.outcome \in {"empty", "abort", "error", "result"}
     /\ Cardinality(Entries(s, "onResult")) = (IF p.outcome = "result" THEN 1 ELSE 0)
     /\ Cardinality(Entries(s, "onError")) = (IF p.outcome = "error" THEN 1 ELSE 0)

\* the attempts of the fetchWithRetry calls of p are within their tries,
\* and no position of the queue was claimed twice
AttemptsBounded(p) ==
  /\ p.try < SttTries
  /\ \A j \in DOMAIN p.w : p.w[j].try < TrTries
  /\ \A i \in DOMAIN p.calls : p.calls[i] <= 1

\* a step leaves the queue of segment s alone or takes entries from its
\* head, one for each call of translateOne it starts at least
QueueShrinks(s) ==
  LET p == pipe[s]
      q == pipe'[s]
      taken == Len(p.queue) - Len(q.queue)
  IN p.pc = "translate" =>
       /\ taken >= 0
       /\ q.queue = SubSeq(p.queue, taken + 1, Len(p.queue))
       /\ SumCalls(q.calls, 1) - SumCalls(p.calls, 1) <= taken

\* C34: a pipeline that finalizeSegment started ends, when every fetch
\* settles and every timer fires, with exactly one of: silence after an
\* empty transcript, silence after an abort, one onError, one onResult (a
\* rejected segment starts no pipeline and is silent). The attempts of
\* each fetchWithRetry are bounded and the queue of the workers only
\* shrinks, by one entry for each claim. A pipeline that was started
\* stays started and one that ended stays as it ended, so that it is
\* enough that again and again no pipeline is running.
C34_PipelineTerminates ==
  /\ [](\A s \in DOMAIN pipe :
          /\ AttemptsBounded(pipe[s])
          /\ pipe[s].pc = "none" => Silent(s)
          /\ pipe[s].pc = "done" <=> pipe[s].outcome # "pending"
          /\ pipe[s].pc = "done" => OutcomeReported(s))
  /\ [][/\ fin'.at = nFrames' /\ fin'.at # fin.at /\ fin'.seg = 0 =>
              pipe' = pipe /\ log' = log /\ nSeg' = nSeg
       /\ \A s \in DOMAIN pipe :
            /\ QueueShrinks(s)
            /\ pipe[s].pc # "none" => pipe'[s].pc # "none"
            /\ pipe[s].pc = "done" =>
                 pipe'[s].pc = "done" /\ pipe'[s].outcome = pipe[s].outcome]_vars
  /\ []<>(\A s \in DOMAIN pipe : pipe[s].pc \in {"none", "done"})

\* both pipelines ended: the first was superseded in its backoff wait
\* and ended silently, the second delivered one translation and failed
\* for the other target
C34_Witness ==
  /\ nSeg = 2
  /\ pipe[1].pc = "done" /\ pipe[1].outcome = "abort" /\ pipe[1].cancel.at = "stt_backoff"
  /\ pipe[2].pc = "done" /\ pipe[2].outcome = "result"
  /\ pipe[2].queue = <<>> /\ pipe[2].ok # {} /\ pipe[2].failed # {}

\* ---- the durations of the segment state
\* 0 <= silence <= total - voiced and 0 <= voiced <= total
DurationsOrdered(silenceMs, voicedMs, segDurMs) ==
  /\ 0 <= silenceMs /\ silenceMs <= segDurMs - voicedMs
  /\ 0 <= voicedMs /\ voicedMs <= segDurMs

\* C35: in every state the trailing silence is between 0 and the total
\* duration less the voiced duration, and the voiced duration between 0
\* and the total duration; while Speaking the voiced duration is at least
\* one frame, the one that started the segment; so every finalized
\* segment has a voiced duration, and a voiced fraction, above zero.
C35_DurationsOrderedVoicedPositive ==
  /\ DurationsOrdered(segm.silenceMs, segm.voicedMs, segm.segDurMs)
  /\ segm.speaking => segm.voicedMs >= FrameMs(opts.sampleRate)
  /\ fin.at > 0 =>
       /\ DurationsOrdered(fin.silenceMs, fin.voicedMs, fin.segDurMs)
       /\ fin.voicedMs >= FrameMs(opts.sampleRate)
       /\ fin.voicedMs > 0 /\ fin.segDurMs > 0
  /\ \A s \in DOMAIN pipe : pipe[s].pc # "none" =>
       pipe[s].voicedMs > 0 /\ pipe[s].voicedMs <= pipe[s].durMs

\* a segment was finalized whose silent frames are not all at its end:
\* the trailing silence is above zero and below total less voiced
C35_Witness ==
  /\ fin.at > 0
  /\ fin.silenceMs > 0
  /\ fin.silenceMs < fin.segDurMs - fin.voicedMs
  /\ fin.voicedMs > FrameMs(opts.sampleRate)
  /\ ~segm.speaking

\* ---- what a frame callback leaves, and what it hands over
\* C36 as stated: after every frame callback the trailing silence is below
\* padMs and, when a frame is shorter than maxSegmentMs, the total duration
\* below maxSegmentMs; every segment handed to finalizeSegment lasts less
\* than maxSegmentMs plus a frame and ends with less silence than padMs
\* plus a frame.
C36_BelowPadBelowMax ==
  LET frameMs == FrameMs(opts.sampleRate)
  IN /\ segm.silenceMs < opts.seg.padMs
     /\ frameMs < opts.seg.maxSegmentMs => segm.segDurMs < opts.seg.maxSegmentMs
     /\ fin.at > 0 =>
          /\ fin.segDurMs < opts.seg.maxSegmentMs + frameMs
          /\ fin.silenceMs < opts.seg.padMs + frameMs

\* C36: after every frame callback the trailing silence is zero or below
\* padMs and, when a frame is shorter than maxSegmentMs, the total duration
\* is below maxSegmentMs. A segment handed to finalizeSegment lasts less
\* than maxSegmentMs plus a frame when a frame is shorter than
\* maxSegmentMs, and two frames otherwise; it ends with less silence than
\* padMs plus a frame when padMs is above zero, and with at most one
\* silent frame otherwise.
C36_ZeroOrBelowPadBelowMax ==
  LET frameMs == FrameMs(opts.sampleRate)
  IN /\ segm.silenceMs = 0 \/ segm.silenceMs < opts.seg.padMs
     /\ frameMs < opts.seg.maxSegmentMs => segm.segDurMs < opts.seg.maxSegmentMs
     /\ fin.at > 0 =>
          /\ IF frameMs < opts.seg.maxSegmentMs
             THEN fin.segDurMs < opts.seg.maxSegmentMs + frameMs
             ELSE fin.segDurMs = 2 * frameMs
          /\ IF opts.seg.padMs > 0
             THEN fin.silenceMs < opts.seg.padMs + frameMs
             ELSE fin.silenceMs <= frameMs

\* a segment of three frames was handed over with two silent frames at
\* its end, below the pad of 300 ms, when it reached 384 ms >= 300 ms
C36_Witness ==
  /\ opts.seg = Overshoot
  /\ fin.at = 3 /\ nFrames = 3
  /\ fin.segDurMs = 384 /\ fin.silenceMs = 256
  /\ segm = IdleSegment

\* ---- rejected segments and the request in flight
\* the step is a frame callback that handed a segment to finalizeSegment,
\* which rejected it
RejectingFrame == fin'.at = nFrames' /\ nFrames' = nFrames + 1 /\ fin'.seg = 0

C38_AtMostOneCallback ==
  /\ \A s \in DOMAIN pipe :
       Cardinality(Entries(s, "onResult")) + Cardinality(Entries(s, "onError")) <= 1
  /\ \A i \in 1..Len(log) :
       log[i].seg # 0 => log[i].seg \in 1..nSeg /\ log[i].cb \in {"onResult", "onError"}

\* the first segment was superseded while its translation was retried and
\* delivered onResult all the same; the second failed its transcription
\* twice and delivered onError
C38_Witness ==
  /\ nSeg = 2
  /\ pipe[1].cancel = [by |-> "supersede", at |-> "translate"]
  /\ Cardinality(Entries(1, "onResult")) = 1 /\ Entries(1, "onError") = {}
  /\ pipe[2].gaveUp # "none"
  /\ Cardinality(Entries(2, "onError")) = 1 /\ Entries(2, "onResult") = {}

\* ---- the order of the results
\* C39: onResult is invoked in the order in which the segments were
\* finalized: no onResult of a segment comes after an onResult of a
\* segment finalized later than it.
C39_ResultsInFinalizationOrder ==
  \A i, j \in 1..Len(log) :
    (i < j /\ log[i].cb = "onResult" /\ log[j].cb = "onResult" /\ log[i].seg # 0 /\ log[j].seg # 0)
      => log[i].seg <= log[j].seg

\* ---- requests after the abort
\* the controller of p was aborted while the pipeline was running
AbortedInFlight(p) == p.aborted /\ p.cancel.at \notin {"none", "done"}

\* C40: once the controller of a segment is aborted, none of its requests
\* is pending on the network: no transcription attempt, no translation
\* attempt and no body read. Every attempt made afterwards, a retry after
\* the backoff or a target taken from the queue, fails at once: no
\* response body and no translation is received any more.
C40_NoLiveRequestAfterAbort ==
  /\ [](\A s \in DOMAIN pipe :
          AbortedInFlight(pipe[s]) =>
            /\ pipe[s].pc \in {"stt_backoff", "translate", "done"}
            /\ InFlight(pipe[s]) = 0)
  /\ [][\A s \in DOMAIN pipe :
          AbortedInFlight(pipe[s]) =>
            /\ pipe'[s].ok = pipe[s].ok
            /\ pipe'[s].results = pipe[s].results \/ pipe'[s].pc = "done"
            /\ pipe'[s].gotBody = pipe[s].gotBody
            /\ pipe'[s].aborted]_vars

\* the first segment was superseded while its one worker waited for the
\* translation of "en", with "ja" still in the queue; since then both
\* targets were tried and failed and the pipeline has ended
C40_Witness ==
  /\ opts.outputs = <<"en", "ja">>
  /\ pipe[1].cancel = [by |-> "supersede", at |-> "translate"]
  /\ pipe[1].pc = "done"
  /\ pipe[1].calls = <<1, 1>> /\ pipe[1].failed = {1, 2} /\ pipe[1].ok = {}
  /\ pipe[1].queue = <<>>

====
